---- MODULE Spec2Model ----
(***************************************************************************)
(* Model of the file-change notification pipeline of claude-token-monitor: *)
(*   backend/app/core/file_watcher.py  DebouncedFileHandler, FileWatcher   *)
(*   backend/app/api/websocket.py      ConnectionManager                   *)
(*                                                                         *)
(* Time is a discrete clock `now`.  A threading.Timer wakes exactly at its *)
(* deadline (Tick cannot pass a timer that is due), but the steps of the   *)
(* timer threads, of the observer thread and of the event loop interleave  *)
(* freely at one instant.                                                  *)
(***************************************************************************)
EXTENDS Integers, Sequences, FiniteSets, TLC

\* ---------------------------------------------------------------- bounds
MaxTime   == 6      \* the clock of a never-stopped handler stops here
MaxWatcherTime == 4 \* the clock stops here when the watcher is also stopped and restarted
QuietTicks == 2     \* clock ticks in one debounce_seconds
MaxTimers == 3      \* Timer objects ever created by one never-stopped handler
MaxWatcherTimers == 2 \* Timer objects ever created when the watcher is also stopped and restarted
MaxStarts == 2      \* successful start_watching calls (handler generations)
MaxHandles == 2     \* WebSocket objects ever offered to the hub
MaxCalls  == 1      \* broadcast calls ever made
MaxFailures == 1    \* transports that ever fail
MaxSends  == 1      \* send_message calls of callers that are delivered
MaxSendHandles == 1 \* WebSocket objects offered to a hub whose callers use send_message
MaxBeatTime == 2    \* the clock of a hub with heartbeat tasks stops here
BeatTicks == 2      \* clock ticks in one heartbeat interval
MaxActivities == 3  \* entries of a list of DailyActivity
MaxDays == 3        \* calendar days of a date window
MaxPeriod == 2      \* period_days of calculate_trends

\* ---------------------------------------------------------------- paths
Paths == {"statsCache.json", "history.JSONL", "notes.txt"}

\* Path(file_path).suffix
Suffix(p) ==
  CASE p = "statsCache.json" -> ".json"
    [] p = "history.JSONL"   -> ".JSONL"
    [] p = "notes.txt"       -> ".txt"

\* str.lower on the suffixes that occur
Lower(s) ==
  CASE s = ".JSONL" -> ".jsonl"
    [] s = ".JSON"  -> ".json"
    [] OTHER        -> s

\* watched_patterns passed by FileWatcher.start_watching
watched_patterns == {".json", ".jsonl"}

\* FileSystemEvent: src_path and is_directory
Events == [src_path : Paths, is_directory : BOOLEAN]

Gens     == 1..MaxStarts
Handles  == 1..MaxHandles
Calls    == 1..MaxCalls
TimerIds == 1..(IF MaxTimers > MaxWatcherTimers THEN MaxTimers ELSE MaxWatcherTimers)

VARIABLES
  now,          \* the clock
  dirExists,    \* claude_dir.exists()
  callback,     \* FileWatcher.callback: "None" or "coroutine"
  is_running,   \* FileWatcher._is_running
  observer,     \* FileWatcher._observer: 0 is None, g the observer driving handler g
  loop,         \* FileWatcher._loop: "None" or "loop"
  loop_running, \* loop.is_running()
  started,      \* number of DebouncedFileHandler objects created so far
  timers,       \* handler g's _timers: path -> timer id, 0 when the key is absent
  timer,        \* every Timer object: its thread state and what is recorded of it
  calls,        \* per handler and path argument: invocations of handler.callback
  burstCalls,   \* per burst (named by its first timer): invocations of handler.callback
  loopQueue,    \* coroutines submitted with run_coroutine_threadsafe, not yet run
  last,         \* the step just taken: [op, raised]: a start_watching with the exception
                \* it raised to its caller, an on_modified that ignored its event
  ws,           \* per WebSocket: the state of its transport
  endpoint,     \* per WebSocket: where websocket_endpoint stands
  active_connections,   \* ConnectionManager.active_connections, a list
  connection_metadata,  \* ConnectionManager.connection_metadata: client id or "absent"
  received,     \* per WebSocket: the payloads delivered to the client, in order
  bcast,        \* per broadcast call: its message, its tasks and failed_connections
  escaped,      \* the exception the latest call of a hub method let escape, or "none"
  heartbeat_tasks,  \* ConnectionManager._heartbeat_tasks, each task named by its websocket
  heartbeat,    \* per WebSocket: the state of its heartbeat_loop task
  shutdown,     \* the cleanup call: where it stands and what it has still to close
  cache,        \* the file statsCache.json: "missing", "valid" or "corrupt"
  returned      \* the latest call of a function of pricing.py or data_processor.py:
                \* [fn, args, value]

watcherVars == <<now, dirExists, callback, is_running, observer, loop, loop_running,
                 started, timers, timer, calls, burstCalls, loopQueue, last>>

taskVars == <<heartbeat_tasks, heartbeat, shutdown>>

hubVars == <<ws, endpoint, active_connections, connection_metadata, received, bcast,
             escaped, taskVars>>

vars == <<watcherVars, hubVars, cache, returned>>

\* ---------------------------------------------------------------- Timer objects
\* state: "waiting" in Timer.run's wait, "cancelled", "expired" once the wait
\* timed out with the finished flag unset, "done" once the function was called.
\* Recorded of a timer: burst (first timer of its burst), atStop (pending when
\* stop_watching ran), quiet (time since the latest event of its path when the
\* callback was invoked), loopOK (a loop was registered and running then),
\* notify (what became of the notification).
NoTimer == [state |-> "none", path |-> "notes.txt", gen |-> 0, deadline |-> 0,
            burst |-> 0, atStop |-> FALSE, quiet |-> -1, loopOK |-> FALSE,
            notify |-> "none"]

Allocated == {t \in TimerIds : timer[t].state # "none"}

\* the timers created by handler g for path p
TimersOf(g, p) == {t \in Allocated : timer[t].gen = g /\ timer[t].path = p}

MaxOf(S) == CHOOSE x \in S : \A y \in S : y <= x

\* time of the event that created timer t
StartOf(t) == timer[t].deadline - QuietTicks

\* Timer.cancel(): sets the finished flag; a thread still waiting never runs
\* the function, a thread already past the flag test is not stopped
Cancel(tm, t) ==
  IF t # 0 /\ tm[t].state = "waiting"
  THEN [tm EXCEPT ![t].state = "cancelled"]
  ELSE tm

\* Timer(debounce_seconds, _trigger_callback, args=[file_path]) created by
\* handler g as timer t
NewTimer(g, file_path, t) ==
  LET prev == TimersOf(g, file_path)
      sameBurst == prev # {} /\ now - StartOf(MaxOf(prev)) < QuietTicks
  IN [NoTimer EXCEPT !.path = file_path, !.gen = g, !.deadline = now + QuietTicks,
                     !.burst = IF sameBurst THEN timer[MaxOf(prev)].burst ELSE t]

\* the event passes the filters of on_modified
Watched(ev) ==
  /\ ~ev.is_directory
  /\ Lower(Suffix(ev.src_path)) \in watched_patterns

\* a step of the watcher: what it raised, and the hub is not touched
Step(op, exc) ==
  /\ last' = [op |-> op, raised |-> exc]
  /\ UNCHANGED <<hubVars, cache, returned>>

\* ---------------------------------------------------------------- DebouncedFileHandler
\* on_modified without the test of the suffix
on_modified_any_suffix(ev) ==
  /\ observer # 0
  /\ IF ev.is_directory
     THEN Step("ignored", "none") /\ UNCHANGED <<timers, timer>>
     ELSE LET g == observer
              file_path == ev.src_path
              t == Cardinality(Allocated) + 1
          IN /\ timer' = [Cancel(timer, timers[g][file_path]) EXCEPT ![t] =
                            [NewTimer(g, file_path, t) EXCEPT !.state = "waiting"]]
             /\ timers' = [timers EXCEPT ![g][file_path] = t]
             /\ Step(IF Watched(ev) THEN "-" ELSE "ignored", "none")
  /\ UNCHANGED <<now, dirExists, callback, is_running, observer, loop, loop_running,
                 started, calls, burstCalls, loopQueue>>

\* on_modified that stores the new timer and never starts it
on_modified_no_start(ev) ==
  /\ observer # 0
  /\ IF ~Watched(ev)
     THEN Step("ignored", "none") /\ UNCHANGED <<timers, timer>>
     ELSE LET g == observer
              file_path == ev.src_path
              t == Cardinality(Allocated) + 1
          IN /\ timer' = [Cancel(timer, timers[g][file_path]) EXCEPT ![t] =
                            [NewTimer(g, file_path, t) EXCEPT !.state = "created"]]
             /\ timers' = [timers EXCEPT ![g][file_path] = t]
             /\ Step("-", "none")
  /\ UNCHANGED <<now, dirExists, callback, is_running, observer, loop, loop_running,
                 started, calls, burstCalls, loopQueue>>

\* on_modified of the handler the running observer drives
on_modified(ev) ==
  /\ observer # 0
  /\ IF ~Watched(ev)
     THEN Step("ignored", "none") /\ UNCHANGED <<timers, timer>>
     ELSE LET g == observer
              file_path == ev.src_path
              t == Cardinality(Allocated) + 1
          IN /\ timer' = [Cancel(timer, timers[g][file_path]) EXCEPT ![t] =
                            [NewTimer(g, file_path, t) EXCEPT !.state = "waiting"]]
             /\ timers' = [timers EXCEPT ![g][file_path] = t]
             /\ Step("-", "none")
  /\ UNCHANGED <<now, dirExists, callback, is_running, observer, loop, loop_running,
                 started, calls, burstCalls, loopQueue>>

\* Timer.run: the wait ended at the deadline and the finished flag is not set
TimerExpire(t) ==
  /\ timer[t].state = "waiting"
  /\ now >= timer[t].deadline
  /\ timer' = [timer EXCEPT ![t].state = "expired"]
  /\ Step("-", "none")
  /\ UNCHANGED <<now, dirExists, callback, is_running, observer, loop, loop_running,
                 started, timers, calls, burstCalls, loopQueue>>

\* _sync_callback that calls the user callback itself, on the timer's thread
sync_callback_runs_callback ==
  IF callback = "None" THEN "skipped" ELSE "ran"

\* _sync_callback that submits the coroutine whatever the state of the loop
sync_callback_always_submits ==
  IF callback = "None" THEN "skipped" ELSE "queued"

\* FileWatcher._sync_callback: what becomes of the notification
sync_callback ==
  IF callback = "None" THEN "skipped"
  ELSE IF loop # "None" /\ loop_running THEN "queued"
  ELSE "dropped"

\* _trigger_callback(file_path) run by the thread of timer t, with the
\* handler's callback, FileWatcher._sync_callback, that it invokes
trigger_callback(t) ==
  /\ timer[t].state = "expired"
  /\ Step("-", "none")
  /\ LET g == timer[t].gen
         file_path == timer[t].path
         outcome == sync_callback
     IN /\ timers' = [timers EXCEPT ![g][file_path] = 0]
        /\ calls' = [calls EXCEPT ![g][file_path] = @ + 1]
        /\ burstCalls' = [burstCalls EXCEPT ![timer[t].burst] = @ + 1]
        /\ timer' = [timer EXCEPT ![t].state = "done",
                                  ![t].quiet = now - StartOf(MaxOf(TimersOf(g, file_path))),
                                  ![t].loopOK = (loop # "None" /\ loop_running),
                                  ![t].notify = outcome]
        /\ loopQueue' = IF outcome = "queued" THEN Append(loopQueue, t) ELSE loopQueue
  /\ UNCHANGED <<now, dirExists, callback, is_running, observer, loop, loop_running,
                 started>>

\* ---------------------------------------------------------------- FileWatcher
\* _async_callback without its try/except: the exception leaves the coroutine
async_callback_no_except(raises) ==
  /\ loop_running
  /\ loopQueue # <<>>
  /\ Step("-", "none")
  /\ LET t == Head(loopQueue)
     IN timer' = [timer EXCEPT ![t].notify = IF raises THEN "uncaught" ELSE "ran"]
  /\ loopQueue' = Tail(loopQueue)
  /\ UNCHANGED <<now, dirExists, callback, is_running, observer, loop, loop_running,
                 started, timers, calls, burstCalls>>

\* _async_callback run by the loop: the user callback returns or raises,
\* and an exception is caught and logged
async_callback(raises) ==
  /\ loop_running
  /\ loopQueue # <<>>
  /\ Step("-", "none")
  /\ LET t == Head(loopQueue)
     IN timer' = [timer EXCEPT ![t].notify = IF raises THEN "raised" ELSE "ran"]
  /\ loopQueue' = Tail(loopQueue)
  /\ UNCHANGED <<now, dirExists, callback, is_running, observer, loop, loop_running,
                 started, timers, calls, burstCalls>>

\* start_watching without the test of _is_running
start_watching_no_running_check ==
  IF ~dirExists
  THEN /\ Step("start_watching", "FileNotFoundError")
       /\ UNCHANGED <<now, dirExists, callback, is_running, observer, loop, loop_running,
                      started, timers, timer, calls, burstCalls, loopQueue>>
  ELSE /\ started < MaxStarts
       /\ Step("start_watching", "none")
       /\ loop' = "loop"
       /\ started' = started + 1
       /\ observer' = started + 1
       /\ is_running' = TRUE
       /\ UNCHANGED <<now, dirExists, callback, loop_running, timers, timer, calls,
                      burstCalls, loopQueue>>

\* start_watching without the test of claude_dir.exists()
start_watching_no_dir_check ==
  IF is_running
  THEN /\ Step("start_watching", "RuntimeError")
       /\ UNCHANGED <<now, dirExists, callback, is_running, observer, loop, loop_running,
                      started, timers, timer, calls, burstCalls, loopQueue>>
  ELSE /\ started < MaxStarts
       /\ Step("start_watching", "none")
       /\ loop' = "loop"
       /\ started' = started + 1
       /\ observer' = started + 1
       /\ is_running' = TRUE
       /\ UNCHANGED <<now, dirExists, callback, loop_running, timers, timer, calls,
                      burstCalls, loopQueue>>

\* start_watching(loop): a new handler with an empty _timers and a new
\* observer; the handlers of earlier starts keep their timers
start_watching ==
  IF is_running
  THEN /\ Step("start_watching", "RuntimeError")
       /\ UNCHANGED <<now, dirExists, callback, is_running, observer, loop, loop_running,
                      started, timers, timer, calls, burstCalls, loopQueue>>
  ELSE IF ~dirExists
  THEN /\ Step("start_watching", "FileNotFoundError")
       /\ UNCHANGED <<now, dirExists, callback, is_running, observer, loop, loop_running,
                      started, timers, timer, calls, burstCalls, loopQueue>>
  ELSE /\ started < MaxStarts
       /\ Step("start_watching", "none")
       /\ loop' = "loop"
       /\ started' = started + 1
       /\ observer' = started + 1
       /\ is_running' = TRUE
       /\ UNCHANGED <<now, dirExists, callback, loop_running, timers, timer, calls,
                      burstCalls, loopQueue>>

\* stop_watching: stops and joins the observer; the handler and its timers
\* are not touched (cancel_all_timers has no caller)
stop_watching ==
  /\ Step("-", "none")
  /\ IF ~is_running
     THEN UNCHANGED <<is_running, observer, timer>>
     ELSE /\ observer' = 0
          /\ is_running' = FALSE
          /\ timer' = [t \in TimerIds |->
                         IF timer[t].gen = observer /\ timer[t].state \in {"waiting", "expired"}
                         THEN [timer[t] EXCEPT !.atStop = TRUE]
                         ELSE timer[t]]
  /\ UNCHANGED <<now, dirExists, callback, loop, loop_running, started, timers, calls,
                 burstCalls, loopQueue>>

\* ---------------------------------------------------------------- environment
\* the clock advances, up to limit, when no timer is due
Tick(limit) ==
  /\ now < limit
  /\ \A t \in TimerIds : /\ timer[t].state # "expired"
                         /\ timer[t].state = "waiting" => timer[t].deadline > now
  /\ now' = now + 1
  /\ Step("-", "none")
  /\ UNCHANGED <<dirExists, callback, is_running, observer, loop, loop_running, started,
                 timers, timer, calls, burstCalls, loopQueue>>

\* the event loop starts or stops running
LoopToggle ==
  /\ loop_running' = ~loop_running
  /\ Step("-", "none")
  /\ UNCHANGED <<now, dirExists, callback, is_running, observer, loop, started,
                 timers, timer, calls, burstCalls, loopQueue>>

\* the watched root directory is removed or created; only start_watching of
\* a watcher that is not running reads it
DirToggle ==
  /\ ~is_running
  /\ dirExists' = ~dirExists
  /\ Step("-", "none")
  /\ UNCHANGED <<now, callback, is_running, observer, loop, loop_running, started,
                 timers, timer, calls, burstCalls, loopQueue>>

\* ---------------------------------------------------------------- ConnectionManager
\* ws[h]: "connecting" before accept; "connected"; "broken" when send_json
\* raises while client_state is still CONNECTED; "disconnected" when send_json
\* raises and client_state is DISCONNECTED; "closed" once cleanup has closed it.
\* endpoint[h]: "new", "accepted" (accept has returned), "open" (connect has
\* delivered its acknowledgment), "closed" (the finally clause has run).
\* An await of send_json hands the message to the transport when it is called
\* and may suspend the caller afterwards; a task made with create_task runs
\* after the tasks made before it.

\* a step of the hub: the watcher is not touched
HubStep == UNCHANGED <<watcherVars, cache, returned>>

\* a step that touches neither the heartbeat tasks nor cleanup
NoTask == UNCHANGED taskVars

\* a message dictionary: its type, its data and its "timestamp" key, which is
\* "absent", "caller" (set by the caller) or "now" (set by the hub)
Message(type, data, timestamp) == [type |-> type, data |-> data, timestamp |-> timestamp]

\* the "connected" message of connect for the client id of the metadata
Connected(client_id) == Message("connected", client_id, "caller")

\* the answer of websocket_endpoint to a message it cannot handle
ErrorReply == Message("error", "x", "caller")

\* the messages callers hand to send_message and to broadcast
CallerMessages == {Message("test", "x", "absent"), Message("pong", "x", "caller")}

\* that sets the key whether or not the caller has set it
Stamp_always(message) == [message EXCEPT !.timestamp = "now"]

\* if "timestamp" not in message: message["timestamp"] = now
Stamp(message) ==
  IF message.timestamp = "absent" THEN [message EXCEPT !.timestamp = "now"] ELSE message

\* what a client receives: the message and the broadcast call that sent it,
\* 0 for a send_message
Delivery(call, message) == [call |-> call, message |-> message]

\* list.remove(h): the first occurrence
RemoveFirst(seq, h) ==
  LET idx == {i \in 1..Len(seq) : seq[i] = h}
  IN IF idx = {} THEN seq
     ELSE LET k == CHOOSE i \in idx : \A j \in idx : i <= j
          IN SubSeq(seq, 1, k - 1) \o SubSeq(seq, k + 1, Len(seq))

\* the registry of the hub as one value, with the exception a method raised
Registry == [active |-> active_connections, metadata |-> connection_metadata,
             raised |-> "none"]

\* disconnect that forgets to pop the metadata entry
disconnect_active_only(reg, h) ==
  [active |-> RemoveFirst(reg.active, h), metadata |-> reg.metadata,
   raised |-> reg.raised]

\* disconnect with list.remove and del unguarded
disconnect_unguarded(reg, h) ==
  [active |-> RemoveFirst(reg.active, h),
   metadata |-> [reg.metadata EXCEPT ![h] = "absent"],
   raised |-> IF \E i \in 1..Len(reg.active) : reg.active[i] = h
              THEN reg.raised ELSE "ValueError"]

\* disconnect(websocket) on registry reg
disconnect(reg, h) ==
  [active |-> RemoveFirst(reg.active, h),
   metadata |-> [reg.metadata EXCEPT ![h] = "absent"],
   raised |-> reg.raised]

\* disconnect for every element of a list of connections, in order
RECURSIVE DisconnectAll(_, _)
DisconnectAll(reg, failed) ==
  IF failed = <<>> THEN reg
  ELSE DisconnectAll(disconnect(reg, Head(failed)), Tail(failed))

\* send_message that disconnects the websocket after every failed send_json
send_message_always_disconnects(reg, h, message) ==
  IF ws[h] = "connected"
  THEN [reg |-> reg, delivered |-> <<Delivery(0, Stamp(message))>>]
  ELSE [reg |-> disconnect(reg, h), delivered |-> <<>>]

\* send_message(websocket, message) on registry reg: the delivery, or on an
\* exception the removal of a websocket whose client_state is DISCONNECTED
send_message(reg, h, message) ==
  IF ws[h] = "connected"
  THEN [reg |-> reg, delivered |-> <<Delivery(0, Stamp(message))>>]
  ELSE [reg |-> IF ws[h] = "disconnected" THEN disconnect(reg, h) ELSE reg,
        delivered |-> <<>>]

\* the effect of a send_message result on the state of the hub
Sent(h, result) ==
  /\ active_connections' = result.reg.active
  /\ connection_metadata' = result.reg.metadata
  /\ received' = [received EXCEPT ![h] = @ \o result.delivered]
  /\ escaped' = result.reg.raised

\* websocket.query_params.get("client_id"): the first websocket names itself
QueryClientId(h) == IF h = 1 THEN "custom" ELSE "None"

\* client_id or f"client_{id(websocket)}"
ClientId(client_id) == IF client_id = "None" THEN "generated" ELSE client_id

\* connect(websocket, client_id) up to the return of accept; the websockets
\* are numbered in the order in which they arrive
connect_accept(h) ==
  /\ endpoint[h] = "new"
  /\ \A g \in Handles : g < h => endpoint[g] # "new"
  /\ ws[h] = "connecting"
  /\ ws' = [ws EXCEPT ![h] = "connected"]
  /\ endpoint' = [endpoint EXCEPT ![h] = "accepted"]
  /\ HubStep /\ NoTask
  /\ UNCHANGED <<active_connections, connection_metadata, received, bcast, escaped>>

\* connect that sends the acknowledgment with the client_id argument
connect_ack_raw_id(h, client_id) ==
  /\ endpoint[h] = "accepted"
  /\ LET reg == [Registry EXCEPT
                   !.active = Append(@, h),
                   !.metadata = [@ EXCEPT ![h] = ClientId(client_id)]]
     IN Sent(h, send_message(reg, h, Connected(client_id)))
  /\ endpoint' = [endpoint EXCEPT ![h] = "open"]
  /\ HubStep /\ NoTask
  /\ UNCHANGED <<ws, bcast>>

\* connect(websocket, client_id) after accept: append, metadata, and the
\* acknowledgment sent with send_message
connect_ack(h, client_id) ==
  /\ endpoint[h] = "accepted"
  /\ LET reg == [Registry EXCEPT
                   !.active = Append(@, h),
                   !.metadata = [@ EXCEPT ![h] = ClientId(client_id)]]
     IN Sent(h, send_message(reg, h, Connected(reg.metadata[h])))
  /\ endpoint' = [endpoint EXCEPT ![h] = "open"]
  /\ HubStep /\ NoTask
  /\ UNCHANGED <<ws, bcast>>

\* websocket_endpoint when websocket.accept() raises in connect: the outer
\* except clause, then the finally clause
connect_accept_fails(h) ==
  /\ endpoint[h] = "new"
  /\ \A g \in Handles : g < h => endpoint[g] # "new"
  /\ ws[h] = "connecting"
  /\ ws' = [ws EXCEPT ![h] = "disconnected"]
  /\ active_connections' = disconnect(Registry, h).active
  /\ connection_metadata' = disconnect(Registry, h).metadata
  /\ escaped' = disconnect(Registry, h).raised
  /\ endpoint' = [endpoint EXCEPT ![h] = "closed"]
  /\ HubStep /\ NoTask
  /\ UNCHANGED <<received, bcast>>

\* the deliveries of send_message calls, each with its websocket and position
DirectSends ==
  UNION {{[websocket |-> g, at |-> i, message |-> received[g][i].message] :
            i \in {j \in 1..Len(received[g]) : received[g][j].call = 0}} :
         g \in Handles}

\* send_message(websocket, message) called for a websocket whose connect has
\* returned, as websocket_endpoint does to answer a client
send_message_call(h, message) ==
  /\ endpoint[h] \in {"open", "receiving"}
  /\ Cardinality({d \in DirectSends : d.message.type # "connected"}) < MaxSends
  /\ Sent(h, send_message(Registry, h, message))
  /\ HubStep /\ NoTask
  /\ UNCHANGED <<ws, endpoint, bcast>>

\* a websocket_endpoint that ends without its finally clause
endpoint_finally_no_disconnect(h) ==
  /\ endpoint[h] \in {"open", "receiving"}
  /\ ws[h] \in {"disconnected", "closed"}
  /\ endpoint' = [endpoint EXCEPT ![h] = "closed"]
  /\ HubStep /\ NoTask
  /\ UNCHANGED <<ws, received, bcast, active_connections, connection_metadata, escaped>>

\* the finally clause of websocket_endpoint, once the client is gone
endpoint_finally(h) ==
  /\ endpoint[h] \in {"open", "receiving"}
  /\ ws[h] \in {"disconnected", "closed"}
  /\ active_connections' = disconnect(Registry, h).active
  /\ connection_metadata' = disconnect(Registry, h).metadata
  /\ escaped' = disconnect(Registry, h).raised
  /\ endpoint' = [endpoint EXCEPT ![h] = "closed"]
  /\ HubStep /\ NoTask
  /\ UNCHANGED <<ws, received, bcast>>

\* the transport of an accepted websocket fails, with or without the
\* websocket noticing that the client is gone
TransportFail(h, how) ==
  /\ ws[h] = "connected"
  /\ Cardinality({g \in Handles : ws[g] \in {"broken", "disconnected"}}) < MaxFailures
  /\ ws' = [ws EXCEPT ![h] = how]
  /\ HubStep /\ NoTask
  /\ UNCHANGED <<endpoint, active_connections, connection_metadata, received, bcast,
                 escaped>>

\* a broadcast call that has not been made
NoCall == [state |-> "idle", message |-> Message("none", "none", "absent"),
           tasks |-> <<>>, failed_connections |-> <<>>, raised |-> "none"]

\* the broadcast calls that have been made
Made == {c \in Calls : bcast[c].state # "idle"}

\* broadcast(message), call c, up to its gather: nothing without
\* connections, else the timestamp and one _safe_send task per connection
Broadcast(c, message) ==
  /\ bcast[c].state = "idle"
  /\ \A d \in Calls : d < c => bcast[d].state # "idle"
  /\ bcast' = [bcast EXCEPT ![c] =
       IF active_connections = <<>>
       THEN [NoCall EXCEPT !.state = "returned", !.message = message]
       ELSE [NoCall EXCEPT !.state = "gather", !.message = Stamp(message),
               !.tasks = [i \in 1..Len(active_connections) |->
                            [connection |-> active_connections[i], st |-> "pending"]]]]

\* broadcast(message) called by any caller
broadcast_start(c, message) ==
  /\ Broadcast(c, message)
  /\ HubStep /\ NoTask
  /\ UNCHANGED <<ws, endpoint, active_connections, connection_metadata, received,
                 escaped>>

\* task i of call c is the oldest task that has not run
Oldest(c, i) ==
  \A d \in Calls : \A j \in 1..Len(bcast[d].tasks) :
    (d < c \/ (d = c /\ j < i)) => bcast[d].tasks[j].st # "pending"

\* a fan-out in which the first failing send_json ends the broadcast
safe_send_aborting(c, i) ==
  /\ bcast[c].state = "gather"
  /\ i \in 1..Len(bcast[c].tasks)
  /\ bcast[c].tasks[i].st = "pending"
  /\ Oldest(c, i)
  /\ LET connection == bcast[c].tasks[i].connection
     IN IF ws[connection] = "connected"
        THEN /\ received' = [received EXCEPT ![connection] =
                               Append(@, Delivery(c, bcast[c].message))]
             /\ bcast' = [bcast EXCEPT ![c].tasks[i].st = "sent"]
        ELSE /\ UNCHANGED received
             /\ bcast' = [bcast EXCEPT ![c].state = "returned",
                                       ![c].raised = "Exception"]
  /\ HubStep /\ NoTask
  /\ UNCHANGED <<ws, endpoint, active_connections, connection_metadata, escaped>>

\* _safe_send(connection, message, failed_connections), task i of call c
safe_send(c, i) ==
  /\ bcast[c].state = "gather"
  /\ i \in 1..Len(bcast[c].tasks)
  /\ bcast[c].tasks[i].st = "pending"
  /\ Oldest(c, i)
  /\ LET connection == bcast[c].tasks[i].connection
     IN IF ws[connection] = "connected"
        THEN /\ received' = [received EXCEPT ![connection] =
                               Append(@, Delivery(c, bcast[c].message))]
             /\ bcast' = [bcast EXCEPT ![c].tasks[i].st = "sent"]
        ELSE /\ UNCHANGED received
             /\ bcast' = [bcast EXCEPT ![c].tasks[i].st = "failed",
                             ![c].failed_connections = Append(@, connection)]
  /\ HubStep /\ NoTask
  /\ UNCHANGED <<ws, endpoint, active_connections, connection_metadata, escaped>>

\* a broadcast that does not wait for its tasks: it disconnects what has
\* failed so far and returns
broadcast_finish_without_join(c) ==
  /\ bcast[c].state = "gather"
  /\ LET reg == DisconnectAll(Registry, bcast[c].failed_connections)
     IN /\ active_connections' = reg.active
        /\ connection_metadata' = reg.metadata
        /\ escaped' = reg.raised
  /\ bcast' = [bcast EXCEPT ![c].state = "returned"]
  /\ HubStep /\ NoTask
  /\ UNCHANGED <<ws, endpoint, received>>

\* broadcast(message), call c, after its gather: every task is done, the
\* failed connections are disconnected
broadcast_finish(c) ==
  /\ bcast[c].state = "gather"
  /\ \A i \in 1..Len(bcast[c].tasks) : bcast[c].tasks[i].st # "pending"
  /\ LET reg == DisconnectAll(Registry, bcast[c].failed_connections)
     IN /\ active_connections' = reg.active
        /\ connection_metadata' = reg.metadata
        /\ escaped' = reg.raised
  /\ bcast' = [bcast EXCEPT ![c].state = "returned"]
  /\ HubStep /\ NoTask
  /\ UNCHANGED <<ws, endpoint, received>>

\* ---------------------------------------------------------------- heartbeat tasks
\* heartbeat[h].state: "none"; "ready" (created, its first step not yet run);
\* "sleeping" in asyncio.sleep(interval) until wake; "ended" (the loop was
\* left); "cancelled".

\* the websocket has no heartbeat task
NoBeat == [state |-> "none", wake |-> 0]

\* the heartbeat message of heartbeat_loop
Heartbeat == Message("heartbeat", "ok", "caller")

\* the heartbeat task of h is created and has not finished
Alive(h) == heartbeat[h].state \in {"ready", "sleeping"}

\* start_heartbeat_task(websocket, interval) called by websocket_endpoint
\* when connect has returned: the task is created and added to the set
start_heartbeat_task(h) ==
  /\ endpoint[h] = "open"
  /\ endpoint' = [endpoint EXCEPT ![h] = "receiving"]
  /\ heartbeat' = [heartbeat EXCEPT ![h] = [state |-> "ready", wake |-> now]]
  /\ heartbeat_tasks' = heartbeat_tasks \cup {h}
  /\ HubStep
  /\ UNCHANGED <<ws, active_connections, connection_metadata, received, bcast,
                 escaped, shutdown>>

\* the heartbeat task of h is scheduled: created, or its sleep is over
Due(h) ==
  \/ heartbeat[h].state = "ready"
  \/ heartbeat[h].state = "sleeping" /\ now >= heartbeat[h].wake

\* heartbeat_loop that never tests the active list
heartbeat_loop_while_true(h) ==
  /\ Due(h)
  /\ LET result == send_message(Registry, h, Heartbeat)
     IN /\ Sent(h, result)
        /\ IF result.reg.raised = "none"
           THEN /\ heartbeat' = [heartbeat EXCEPT ![h] =
                                   [state |-> "sleeping", wake |-> now + BeatTicks]]
                /\ UNCHANGED heartbeat_tasks
           ELSE /\ heartbeat' = [heartbeat EXCEPT ![h].state = "ended"]
                /\ heartbeat_tasks' = heartbeat_tasks \ {h}
  /\ HubStep
  /\ UNCHANGED <<ws, endpoint, bcast, shutdown>>

\* one round of heartbeat_loop for websocket h: the test of the active list,
\* then send_message and the start of the sleep, or the end of the task and
\* its done callback
heartbeat_loop(h) ==
  /\ Due(h)
  /\ IF \E i \in 1..Len(active_connections) : active_connections[i] = h
     THEN LET result == send_message(Registry, h, Heartbeat)
          IN /\ Sent(h, result)
             /\ IF result.reg.raised = "none"
                THEN /\ heartbeat' = [heartbeat EXCEPT ![h] =
                                        [state |-> "sleeping", wake |-> now + BeatTicks]]
                     /\ UNCHANGED heartbeat_tasks
                ELSE /\ heartbeat' = [heartbeat EXCEPT ![h].state = "ended"]
                     /\ heartbeat_tasks' = heartbeat_tasks \ {h}
     ELSE /\ heartbeat' = [heartbeat EXCEPT ![h].state = "ended"]
          /\ heartbeat_tasks' = heartbeat_tasks \ {h}
          /\ UNCHANGED <<active_connections, connection_metadata, received, escaped>>
  /\ HubStep
  /\ UNCHANGED <<ws, endpoint, bcast, shutdown>>

\* the clock of the hub advances, up to limit, when no heartbeat task is due
HubTick(limit) ==
  /\ now < limit
  /\ \A h \in Handles : ~Due(h)
  /\ now' = now + 1
  /\ UNCHANGED <<dirExists, callback, is_running, observer, loop, loop_running, started,
                 timers, timer, calls, burstCalls, loopQueue, last>>
  /\ UNCHANGED <<hubVars, cache, returned>>

\* ---------------------------------------------------------------- cleanup
\* shutdown.state: "idle"; "gather" (the tasks are cancelled, cleanup awaits
\* them); "closing" (suspended in connection.close()); "returned".
NoCleanup == [state |-> "idle", toClose |-> <<>>]

\* the connections of a list from the first one whose close() does not raise
RECURSIVE Closable(_)
Closable(list) ==
  IF list = <<>> THEN <<>>
  ELSE IF ws[Head(list)] = "connected" THEN list
  ELSE Closable(Tail(list))

\* a closing loop that ends with active_connections.clear() alone
Closing_active_only(list) ==
  LET rest == Closable(list)
  IN IF rest = <<>>
     THEN /\ active_connections' = <<>>
          /\ shutdown' = [state |-> "returned", toClose |-> <<>>]
          /\ UNCHANGED <<ws, connection_metadata>>
     ELSE /\ ws' = [ws EXCEPT ![Head(rest)] = "closed"]
          /\ shutdown' = [state |-> "closing", toClose |-> Tail(rest)]
          /\ UNCHANGED <<active_connections, connection_metadata>>

\* cleanup from its closing loop on: close() of the next connection that can
\* be closed, in which cleanup is suspended, or with none left the two
\* clear() calls and the return
Closing(list) ==
  LET rest == Closable(list)
  IN IF rest = <<>>
     THEN /\ active_connections' = <<>>
          /\ connection_metadata' = [h \in Handles |-> "absent"]
          /\ shutdown' = [state |-> "returned", toClose |-> <<>>]
          /\ UNCHANGED ws
     ELSE /\ ws' = [ws EXCEPT ![Head(rest)] = "closed"]
          /\ shutdown' = [state |-> "closing", toClose |-> Tail(rest)]
          /\ UNCHANGED <<active_connections, connection_metadata>>

\* cleanup(): every task of the set is cancelled and cleanup suspends in
\* gather; with an empty set gather does not suspend and the closing begins
cleanup_start ==
  /\ shutdown.state = "idle"
  /\ IF heartbeat_tasks # {}
     THEN /\ heartbeat' = [h \in Handles |->
                             IF h \in heartbeat_tasks /\ Alive(h)
                             THEN [heartbeat[h] EXCEPT !.state = "cancelled"]
                             ELSE heartbeat[h]]
          /\ shutdown' = [state |-> "gather", toClose |-> <<>>]
          /\ UNCHANGED <<ws, active_connections, connection_metadata, heartbeat_tasks>>
     ELSE /\ Closing(active_connections)
          /\ UNCHANGED <<heartbeat, heartbeat_tasks>>
  /\ HubStep
  /\ UNCHANGED <<endpoint, received, bcast, escaped>>

\* cleanup() resumes from gather: the set is cleared and the closing begins
cleanup_gathered ==
  /\ shutdown.state = "gather"
  /\ heartbeat_tasks' = {}
  /\ Closing(active_connections)
  /\ HubStep
  /\ UNCHANGED <<endpoint, received, bcast, escaped, heartbeat>>

\* cleanup() resumes from a close(): the next connection, or the end
cleanup_close ==
  /\ shutdown.state = "closing"
  /\ Closing(shutdown.toClose)
  /\ HubStep
  /\ UNCHANGED <<endpoint, received, bcast, escaped, heartbeat, heartbeat_tasks>>

\* ---------------------------------------------------------------- send_stats_update
\* settings.get_claude_dir_path() / "statsCache.json", among the paths
stats_cache_path == "statsCache.json"

\* json.load of the cache file: the document, or an exception
Load == IF cache = "valid" THEN "document" ELSE "Exception"

\* stats_data with no try around the read
stats_data_no_except(file_path) ==
  IF file_path = stats_cache_path /\ cache # "missing" THEN Load ELSE "None"

\* stats_data of send_stats_update(file_path): None unless the path is the
\* cache file, the file exists and it is read and parsed without exception
stats_data(file_path) ==
  IF file_path = stats_cache_path /\ cache # "missing"
  THEN IF Load = "Exception" THEN "None" ELSE Load
  ELSE "None"

\* the stats_update message of send_stats_update(file_path)
StatsUpdate(file_path, stats) ==
  Message("stats_update", [file_path |-> file_path, stats |-> stats], "caller")

\* _async_callback run by the loop with the application's callback,
\* on_file_changed: send_stats_update(file_path) hands its message to
\* broadcast call c; an exception ends up in the except clause of
\* _async_callback
send_stats_update(c) ==
  /\ loop_running
  /\ loopQueue # <<>>
  /\ LET t == Head(loopQueue)
         file_path == timer[t].path
         stats == stats_data(file_path)
     IN IF stats = "Exception"
        THEN /\ timer' = [timer EXCEPT ![t].notify = "raised"]
             /\ UNCHANGED bcast
        ELSE /\ timer' = [timer EXCEPT ![t].notify = "ran"]
             /\ Broadcast(c, StatsUpdate(file_path, stats))
  /\ loopQueue' = Tail(loopQueue)
  /\ last' = [op |-> "-", raised |-> "none"]
  /\ NoTask
  /\ UNCHANGED <<now, dirExists, callback, is_running, observer, loop, loop_running,
                 started, timers, calls, burstCalls, cache, returned>>
  /\ UNCHANGED <<ws, endpoint, active_connections, connection_metadata, received,
                 escaped>>

\* statsCache.json is written, damaged or removed
CacheWrite(content) ==
  /\ cache # content
  /\ cache' = content
  /\ UNCHANGED <<watcherVars, hubVars, returned>>

\* ---------------------------------------------------------------- pricing
\* backend/app/core/pricing.py.  Model names are strings; prices are kept in
\* cents per million tokens, amounts of money as whole cents plus a rest in
\* 10^-8 USD, so that every product and sum below is exact.

\* s[i], as a string of one character
Char(s, i) == SubSeq(s, i, i)

\* sub in s
Contains(s, sub) ==
  \E i \in 1..(Len(s) - Len(sub) + 1) : SubSeq(s, i, i + Len(sub) - 1) = sub

\* str.lower
RECURSIVE lower(_)
lower(s) ==
  IF s = "" THEN ""
  ELSE LET Uppercase == "ABCDEFGHIJKLMNOPQRSTUVWXYZ"
           Lowercase == "abcdefghijklmnopqrstuvwxyz"
           c == Char(s, 1)
           small == IF \E i \in 1..26 : Char(Uppercase, i) = c
                    THEN Char(Lowercase, CHOOSE i \in 1..26 : Char(Uppercase, i) = c)
                    ELSE c
       IN small \o lower(SubSeq(s, 2, Len(s)))

\* str.strip
RECURSIVE strip(_)
strip(s) ==
  IF s = "" THEN ""
  ELSE IF Char(s, 1) \in {" ", "\t"} THEN strip(SubSeq(s, 2, Len(s)))
  ELSE IF Char(s, Len(s)) \in {" ", "\t"} THEN strip(SubSeq(s, 1, Len(s) - 1))
  ELSE s

\* str.replace(old, new) for one character old
RECURSIVE replace(_, _, _)
replace(s, old, new) ==
  IF s = "" THEN ""
  ELSE (IF Char(s, 1) = old THEN new ELSE Char(s, 1)) \o replace(SubSeq(s, 2, Len(s)), old, new)

\* a ModelPricing
ModelPricing(name, input, output, cache_read, cache_write) ==
  [model_name |-> name, input_price |-> input, output_price |-> output,
   cache_read_price |-> cache_read, cache_write_price |-> cache_write]

\* PRICING_CONFIG, in the order of the dict: the key of every entry is its
\* model_name
PRICING_CONFIG == <<
  ModelPricing("claude-opus-4.5", 1500, 7500, 150, 1875),
  ModelPricing("claude-opus-4-5-20251101", 1500, 7500, 150, 1875),
  ModelPricing("claude-opus-4-5-thinking", 1500, 7500, 150, 1875),
  ModelPricing("claude-sonnet-4.5", 300, 1500, 30, 375),
  ModelPricing("claude-sonnet-4-5-20250929", 300, 1500, 30, 375),
  ModelPricing("claude-haiku-4.5", 80, 400, 8, 100),
  ModelPricing("claude-haiku-4-5-20251001", 80, 400, 8, 100) >>

Keys == {PRICING_CONFIG[k].model_name : k \in 1..Len(PRICING_CONFIG)}

\* the return value None
None == [model_name |-> "None"]

\* normalize_model_name
normalize_model_name(model_name) ==
  LET normalized == replace(replace(strip(lower(model_name)), " ", "-"), "_", "-")
      legacy == Contains(normalized, "3-5") \/ Contains(normalized, "3.5")
  IN  IF legacy /\ Contains(normalized, "opus") THEN "claude-opus-4.5"
      ELSE IF legacy /\ Contains(normalized, "sonnet") THEN "claude-sonnet-4.5"
      ELSE IF legacy /\ Contains(normalized, "haiku") THEN "claude-haiku-4.5"
      ELSE replace(normalized, ".", "-")

\* the first entry of PRICING_CONFIG, from position k on, whose key contains
\* normalized or is contained in it
RECURSIVE Fuzzy(_, _)
Fuzzy(normalized, k) ==
  IF k > Len(PRICING_CONFIG) THEN None
  ELSE LET key == PRICING_CONFIG[k].model_name
       IN  IF Contains(key, normalized) \/ Contains(normalized, key)
           THEN PRICING_CONFIG[k]
           ELSE Fuzzy(normalized, k + 1)

\* get_model_pricing whose fallback takes the first entry of the table
get_model_pricing_first_entry(model_name) ==
  LET normalized == normalize_model_name(model_name)
  IN  IF normalized \in Keys
      THEN CHOOSE p \in {PRICING_CONFIG[k] : k \in 1..Len(PRICING_CONFIG)} :
             p.model_name = normalized
      ELSE PRICING_CONFIG[1]

\* get_model_pricing
get_model_pricing(model_name) ==
  LET normalized == normalize_model_name(model_name)
  IN  IF normalized \in Keys
      THEN CHOOSE p \in {PRICING_CONFIG[k] : k \in 1..Len(PRICING_CONFIG)} :
             p.model_name = normalized
      ELSE Fuzzy(normalized, 1)

\* an amount of money: whole cents and a rest below one cent, in 10^-8 USD
USD(cents, rest) == [cents |-> cents, rest |-> rest]

\* (tokens / 1_000_000) * price
Times(tokens, price) ==
  LET thousands == (tokens \div 1000) * price
      units == (thousands % 1000) * 1000 + (tokens % 1000) * price
  IN  USD(thousands \div 1000 + units \div 1000000, units % 1000000)

\* a + b
Plus(a, b) ==
  USD(a.cents + b.cents + (a.rest + b.rest) \div 1000000, (a.rest + b.rest) % 1000000)

\* calculate_cost
calculate_cost(input_tokens, output_tokens, cache_read_tokens, cache_creation_tokens, model_name) ==
  LET pricing == get_model_pricing(model_name)
  IN  IF pricing = None THEN USD(0, 0)
      ELSE Plus(Plus(Plus(Times(input_tokens, pricing.input_price),
                          Times(output_tokens, pricing.output_price)),
                     Times(cache_read_tokens, pricing.cache_read_price)),
                Times(cache_creation_tokens, pricing.cache_write_price))

\* model names that callers pass
ModelNames ==
  Keys \cup {"Claude Opus 4.5", "CLAUDE_HAIKU_4.5", " claude-sonnet-4.5 ",
             "claude-3-5-sonnet-20241022", "claude-3.5-opus", "claude-3.5-haiku",
             "claude-sonnet-4-5", "sonnet", "claude-opus-4-5-thinking-v2",
             "unknown-model", "gpt-4", "claude", "4.5", ""}

\* token counts that callers pass
TokenCounts == {0, 1, 500000, 1000000}

\* the value a function returned to its caller, or the exception it raised
NoReturn == [fn |-> "-", args |-> <<>>, value |-> "-", raised |-> "none"]

\* a caller calls get_model_pricing
call_get_model_pricing(model_name) ==
  /\ returned' = [fn |-> "get_model_pricing", args |-> <<model_name>>,
                  value |-> get_model_pricing(model_name), raised |-> "none"]
  /\ UNCHANGED <<watcherVars, hubVars, cache>>

\* a caller calls calculate_cost
call_calculate_cost(input_tokens, output_tokens, cache_read_tokens, cache_creation_tokens, model_name) ==
  /\ returned' = [fn |-> "calculate_cost",
                  args |-> <<input_tokens, output_tokens, cache_read_tokens,
                             cache_creation_tokens, model_name>>,
                  value |-> calculate_cost(input_tokens, output_tokens, cache_read_tokens,
                                           cache_creation_tokens, model_name),
                  raised |-> "none"]
  /\ UNCHANGED <<watcherVars, hubVars, cache>>

\* ---------------------------------------------------------------- dates
\* backend/app/core/data_processor.py.  A date is a string YYYY-MM-DD, a
\* datetime a record [year, month, day].

Digits == "0123456789"

IsDigits(s) == \A i \in 1..Len(s) : \E k \in 1..10 : Char(Digits, k) = Char(s, i)

\* int(s) for a string of digits
RECURSIVE int(_)
int(s) ==
  IF s = "" THEN 0
  ELSE int(SubSeq(s, 1, Len(s) - 1)) * 10
         + (CHOOSE k \in 0..9 : Char(Digits, k + 1) = Char(s, Len(s)))

\* calendar.isleap, and the days of a month
DaysIn(year, month) ==
  IF month = 2
  THEN (IF year % 4 = 0 /\ (year % 100 # 0 \/ year % 400 = 0) THEN 29 ELSE 28)
  ELSE IF month \in {4, 6, 9, 11} THEN 30 ELSE 31

\* datetime.strptime(s, "%Y-%m-%d"): four digits, then a month and a day of
\* one or two digits each; "ValueError" when s is no date
strptime(s) ==
  LET shapes == {<<m, d>> \in (1..2) \X (1..2) :
                   /\ Len(s) = 6 + m + d
                   /\ Char(s, 5) = "-" /\ Char(s, 6 + m) = "-"
                   /\ IsDigits(SubSeq(s, 1, 4))
                   /\ IsDigits(SubSeq(s, 6, 5 + m))
                   /\ IsDigits(SubSeq(s, 7 + m, Len(s)))}
  IN  IF shapes = {} THEN "ValueError"
      ELSE LET shape == CHOOSE x \in shapes : TRUE
               year  == int(SubSeq(s, 1, 4))
               month == int(SubSeq(s, 6, 5 + shape[1]))
               day   == int(SubSeq(s, 7 + shape[1], Len(s)))
           IN  IF year >= 1 /\ month \in 1..12 /\ day >= 1 /\ day <= DaysIn(year, month)
               THEN [year |-> year, month |-> month, day |-> day]
               ELSE "ValueError"

\* str(n) filled with zeros on the left to width digits
RECURSIVE Decimal(_, _)
Decimal(n, width) ==
  IF n = 0 /\ width <= 0 THEN ""
  ELSE Decimal(n \div 10, width - 1) \o Char(Digits, (n % 10) + 1)

\* strftime that does not fill with zeros
strftime_unpadded(dt) ==
  Decimal(dt.year, 1) \o "-" \o Decimal(dt.month, 1) \o "-" \o Decimal(dt.day, 1)

\* dt.strftime("%Y-%m-%d")
strftime(dt) ==
  Decimal(dt.year, 4) \o "-" \o Decimal(dt.month, 2) \o "-" \o Decimal(dt.day, 2)

\* dt + timedelta(days=1)
NextDay(dt) ==
  IF dt.day < DaysIn(dt.year, dt.month) THEN [dt EXCEPT !.day = dt.day + 1]
  ELSE IF dt.month < 12 THEN [dt EXCEPT !.month = dt.month + 1, !.day = 1]
  ELSE [year |-> dt.year + 1, month |-> 1, day |-> 1]

\* a <= b for two datetimes
NotAfter(a, b) ==
  \/ a.year < b.year
  \/ a.year = b.year /\ a.month < b.month
  \/ a.year = b.year /\ a.month = b.month /\ a.day <= b.day

\* s < t for two strings, by the order of the characters of a date string
RECURSIVE StrLess(_, _)
StrLess(s, t) ==
  IF t = "" THEN FALSE
  ELSE IF s = "" THEN TRUE
  ELSE IF Char(s, 1) = Char(t, 1) THEN StrLess(SubSeq(s, 2, Len(s)), SubSeq(t, 2, Len(t)))
  ELSE LET CharOrder == "-0123456789"
           Ord(c) == CHOOSE k \in 1..Len(CharOrder) : Char(CharOrder, k) = c
       IN  Ord(Char(s, 1)) < Ord(Char(t, 1))

\* DailyActivity
DailyActivity(date, session_count, total_tokens, models) ==
  [date |-> date, session_count |-> session_count, total_tokens |-> total_tokens,
   models |-> models]

\* {activity.date: activity for activity in daily_activities}: a later entry
\* replaces an earlier one of the same date
date_to_activity(daily_activities) ==
  [date \in {daily_activities[i].date : i \in 1..Len(daily_activities)} |->
     LET at == {i \in 1..Len(daily_activities) : daily_activities[i].date = date}
     IN  daily_activities[CHOOSE i \in at : \A j \in at : j <= i]]

\* the while loop of fill_missing_dates from current_dt on
RECURSIVE FillFrom(_, _, _)
FillFrom(by_date, current_dt, end_dt) ==
  IF NotAfter(current_dt, end_dt)
  THEN LET date_str == strftime(current_dt)
           entry == IF date_str \in DOMAIN by_date THEN by_date[date_str]
                    ELSE DailyActivity(date_str, 0, 0, <<>>)
       IN  <<entry>> \o FillFrom(by_date, NextDay(current_dt), end_dt)
  ELSE <<>>

\* fill_missing_dates
fill_missing_dates(daily_activities, start_date, end_date) ==
  FillFrom(date_to_activity(daily_activities), strptime(start_date), strptime(end_date))

\* date.toordinal: the days from 0001-01-01 to dt, both counted
RECURSIVE DaysBeforeMonth(_, _)
DaysBeforeMonth(year, month) ==
  IF month = 1 THEN 0 ELSE DaysBeforeMonth(year, month - 1) + DaysIn(year, month - 1)

toordinal(dt) ==
  LET y == dt.year - 1
  IN  y * 365 + y \div 4 - y \div 100 + y \div 400 + DaysBeforeMonth(dt.year, dt.month) + dt.day

\* (b - a).days for two date strings
Days(a, b) == toordinal(strptime(b)) - toordinal(strptime(a))

\* the DailyActivity lists that callers pass: any order, dates may repeat
Activities ==
  LET ActivityDates == {"2024-02-28", "2024-02-29", "2024-03-01"}
      Usages == {<<0, 0, <<>>>>, <<5, 10000, <<"claude-sonnet-4.5">>>>, <<8, 15000, <<>>>>}
  IN  {DailyActivity(date, u[1], u[2], u[3]) : date \in ActivityDates, u \in Usages}

ActivityLists == UNION {[1..n -> Activities] : n \in 0..MaxActivities}

\* a caller calls fill_missing_dates
call_fill_missing_dates(daily_activities, start_date, end_date) ==
  /\ returned' = [fn |-> "fill_missing_dates",
                  args |-> <<daily_activities, start_date, end_date>>,
                  value |-> fill_missing_dates(daily_activities, start_date, end_date),
                  raised |-> "none"]
  /\ UNCHANGED <<watcherVars, hubVars, cache>>

\* ---------------------------------------------------------------- trends
\* Averages and rates are kept in hundredths, as round(x, 2) returns them.

\* sorted_activities with one more entry: behind every entry whose date is
\* not greater, so that entries of equal dates keep their order
RECURSIVE Insert(_, _)
Insert(activity, ordered) ==
  IF ordered = <<>> THEN <<activity>>
  ELSE IF StrLess(activity.date, Head(ordered).date) THEN <<activity>> \o ordered
  ELSE <<Head(ordered)>> \o Insert(activity, Tail(ordered))

\* sorted(daily_activities, key=lambda x: x.date)
RECURSIVE sorted(_)
sorted(daily_activities) ==
  IF daily_activities = <<>> THEN <<>>
  ELSE Insert(daily_activities[Len(daily_activities)],
              sorted(SubSeq(daily_activities, 1, Len(daily_activities) - 1)))

\* sum(a.total_tokens for a in activities)
RECURSIVE sum_total_tokens(_)
sum_total_tokens(activities) ==
  IF activities = <<>> THEN 0
  ELSE Head(activities).total_tokens + sum_total_tokens(Tail(activities))

\* round(100 * n / d), for d > 0: the hundredths of round(n / d, 2)
Round2(n, d) == (200 * n + d) \div (2 * d)

\* the entry of trends that the loop writes for sorted_activities[i]
Trend(sorted_activities, i, period_days) ==
  LET activity == sorted_activities[i]
      low == IF i - period_days > 1 THEN i - period_days ELSE 1
      period_activities == SubSeq(sorted_activities, low, i - 1)
      total == sum_total_tokens(period_activities)
      count == Len(period_activities)
  IN  [total_tokens |-> activity.total_tokens,
       prev_period_avg |-> IF count > 0 THEN Round2(total, count) ELSE 0,
       growth_rate |-> IF count > 0 /\ total > 0
                       THEN Round2(100 * (activity.total_tokens * count - total), total)
                       ELSE 0,
       session_count |-> activity.session_count]

\* the for loop of calculate_trends from index i on, with trends[key] = value
\* as SetItem
RECURSIVE TrendsFrom(_, _, _, _)
TrendsFrom(sorted_activities, i, period_days, trends) ==
  IF i > Len(sorted_activities) THEN trends
  ELSE LET SetItem(dict, key, value) ==
             [k \in DOMAIN dict \cup {key} |-> IF k = key THEN value ELSE dict[k]]
       IN  TrendsFrom(sorted_activities, i + 1, period_days,
                      SetItem(trends, sorted_activities[i].date,
                              Trend(sorted_activities, i, period_days)))

\* calculate_trends: a dict, here a function of the dates
calculate_trends(daily_activities, period_days) ==
  TrendsFrom(sorted(daily_activities), 1, period_days, <<>>)

\* the periods that callers pass
Periods == (-1)..MaxPeriod

\* a caller calls calculate_trends
call_calculate_trends(daily_activities, period_days) ==
  /\ returned' = [fn |-> "calculate_trends", args |-> <<daily_activities, period_days>>,
                  value |-> calculate_trends(daily_activities, period_days),
                  raised |-> "none"]
  /\ UNCHANGED <<watcherVars, hubVars, cache>>

\* ---------------------------------------------------------------- date ranges
\* A bound that is None or empty is the empty string: both are false in
\* `if start_date and ...`.

\* filter_by_date_range that leaves out the entries of end_date
RECURSIVE filter_by_date_range_before_end(_, _, _)
filter_by_date_range_before_end(daily_activities, start_date, end_date) ==
  IF daily_activities = <<>> THEN <<>>
  ELSE LET activity == Head(daily_activities)
           rest == filter_by_date_range_before_end(Tail(daily_activities), start_date, end_date)
       IN  IF start_date # "" /\ StrLess(activity.date, start_date) THEN rest
           ELSE IF end_date # "" /\ ~StrLess(activity.date, end_date) THEN rest
           ELSE <<activity>> \o rest

\* filter_by_date_range
RECURSIVE filter_by_date_range(_, _, _)
filter_by_date_range(daily_activities, start_date, end_date) ==
  IF daily_activities = <<>> THEN <<>>
  ELSE LET activity == Head(daily_activities)
           rest == filter_by_date_range(Tail(daily_activities), start_date, end_date)
       IN  IF start_date # "" /\ StrLess(activity.date, start_date) THEN rest
           ELSE IF end_date # "" /\ StrLess(end_date, activity.date) THEN rest
           ELSE <<activity>> \o rest

\* sum(a.session_count for a in filtered)
RECURSIVE sum_session_count(_)
sum_session_count(activities) ==
  IF activities = <<>> THEN 0
  ELSE Head(activities).session_count + sum_session_count(Tail(activities))

\* max(a.total_tokens for a in filtered), min(...)
RECURSIVE max_total_tokens(_)
max_total_tokens(activities) ==
  IF Len(activities) = 1 THEN Head(activities).total_tokens
  ELSE LET m == max_total_tokens(Tail(activities))
       IN  IF Head(activities).total_tokens > m THEN Head(activities).total_tokens ELSE m

RECURSIVE min_total_tokens(_)
min_total_tokens(activities) ==
  IF Len(activities) = 1 THEN Head(activities).total_tokens
  ELSE LET m == min_total_tokens(Tail(activities))
       IN  IF Head(activities).total_tokens < m THEN Head(activities).total_tokens ELSE m

\* the summary of an empty range
EmptySummary ==
  [total_days |-> 0, total_sessions |-> 0, total_tokens |-> 0, avg_daily_sessions |-> 0,
   avg_daily_tokens |-> 0, max_daily_tokens |-> 0, min_daily_tokens |-> 0]

\* calculate_date_range_stats
calculate_date_range_stats(daily_activities, start_date, end_date) ==
  LET filtered == filter_by_date_range(daily_activities, start_date, end_date)
      total_days == Len(filtered)
      total_sessions == sum_session_count(filtered)
      total_tokens == sum_total_tokens(filtered)
  IN  IF filtered = <<>> THEN EmptySummary
      ELSE [total_days |-> total_days,
            total_sessions |-> total_sessions,
            total_tokens |-> total_tokens,
            avg_daily_sessions |-> Round2(total_sessions, total_days),
            avg_daily_tokens |-> Round2(total_tokens, total_days),
            max_daily_tokens |-> max_total_tokens(filtered),
            min_daily_tokens |-> min_total_tokens(filtered),
            start_date |-> IF start_date # "" THEN start_date ELSE filtered[1].date,
            end_date |-> IF end_date # "" THEN end_date ELSE filtered[Len(filtered)].date]

\* the bounds of a range that callers pass
RangeDates == {"", "2024-02-28", "2024-02-29", "2024-03-01"}

\* a caller calls calculate_date_range_stats
call_calculate_date_range_stats(daily_activities, start_date, end_date) ==
  /\ returned' = [fn |-> "calculate_date_range_stats",
                  args |-> <<daily_activities, start_date, end_date>>,
                  value |-> calculate_date_range_stats(daily_activities, start_date, end_date),
                  raised |-> "none"]
  /\ UNCHANGED <<watcherVars, hubVars, cache>>

\* ---------------------------------------------------------------- specifications
WatcherInit ==
  /\ now = 0
  /\ dirExists \in BOOLEAN
  /\ callback \in {"None", "coroutine"}
  /\ is_running = FALSE
  /\ observer = 0
  /\ loop = "None"
  /\ loop_running = TRUE
  /\ started = 0
  /\ timers = [g \in Gens |-> [p \in Paths |-> 0]]
  /\ timer = [t \in TimerIds |-> NoTimer]
  /\ calls = [g \in Gens |-> [p \in Paths |-> 0]]
  /\ burstCalls = [t \in TimerIds |-> 0]
  /\ loopQueue = <<>>
  /\ last = [op |-> "-", raised |-> "none"]

HubInit ==
  /\ ws = [h \in Handles |-> "connecting"]
  /\ endpoint = [h \in Handles |-> "new"]
  /\ active_connections = <<>>
  /\ connection_metadata = [h \in Handles |-> "absent"]
  /\ received = [h \in Handles |-> <<>>]
  /\ bcast = [c \in Calls |-> NoCall]
  /\ escaped = "none"
  /\ heartbeat_tasks = {}
  /\ heartbeat = [h \in Handles |-> NoBeat]
  /\ shutdown = NoCleanup

Init == WatcherInit /\ HubInit /\ cache = "valid" /\ returned = NoReturn

\* fewer than n Timer objects exist
TimersLeft(n) == Cardinality(Allocated) < n

\* the watcher with its whole life cycle
WatcherNext ==
  \/ \E ev \in Events : TimersLeft(MaxWatcherTimers) /\ on_modified(ev)
  \/ \E t \in TimerIds : TimerExpire(t)
  \/ \E t \in TimerIds : trigger_callback(t)
  \/ \E raises \in BOOLEAN : async_callback(raises)
  \/ start_watching
  \/ stop_watching
  \/ Tick(MaxWatcherTime)
  \/ LoopToggle
  \/ DirToggle

SpecWatcher == Init /\ [][WatcherNext]_vars

\* one handler of a watcher that is started and never stopped
DebounceInit == Init /\ dirExists /\ callback = "coroutine"

DebounceNext ==
  \/ \E ev \in Events : TimersLeft(MaxTimers) /\ on_modified(ev)
  \/ \E t \in TimerIds : TimerExpire(t)
  \/ \E t \in TimerIds : trigger_callback(t)
  \/ \E raises \in BOOLEAN : async_callback(raises)
  \/ start_watching
  \/ Tick(MaxTime)

SpecDebounce == DebounceInit /\ [][DebounceNext]_vars

\* the hub alone, next to a watcher that was never started
SpecHubInit == Init /\ dirExists /\ callback = "coroutine"

HubNext ==
  \/ \E h \in Handles : connect_accept(h)
  \/ \E h \in Handles : connect_ack(h, QueryClientId(h))
  \/ \E h \in Handles : endpoint_finally(h)
  \/ \E h \in Handles, how \in {"broken", "disconnected"} : TransportFail(h, how)
  \/ \E c \in Calls, message \in CallerMessages : broadcast_start(c, message)
  \/ \E c \in Calls, i \in 1..MaxHandles : safe_send(c, i)
  \/ \E c \in Calls : broadcast_finish(c)

SpecHub == SpecHubInit /\ [][HubNext]_vars

\* the hub with callers of send_message, for the first websockets
SendNext ==
  \/ \E h \in 1..MaxSendHandles : connect_accept(h)
  \/ \E h \in Handles : connect_ack(h, QueryClientId(h))
  \/ \E h \in Handles, message \in CallerMessages : send_message_call(h, message)
  \/ \E h \in Handles : endpoint_finally(h)
  \/ \E h \in Handles, how \in {"broken", "disconnected"} : TransportFail(h, how)
  \/ \E c \in Calls, message \in CallerMessages : broadcast_start(c, message)
  \/ \E c \in Calls, i \in 1..MaxHandles : safe_send(c, i)
  \/ \E c \in Calls : broadcast_finish(c)

SpecSend == SpecHubInit /\ [][SendNext]_vars

\* the endpoints with their heartbeat tasks
BeatNext ==
  \/ \E h \in Handles : connect_accept(h)
  \/ \E h \in Handles : connect_ack(h, QueryClientId(h))
  \/ \E h \in Handles : start_heartbeat_task(h)
  \/ \E h \in Handles : heartbeat_loop(h)
  \/ \E h \in Handles : endpoint[h] = "receiving" /\ endpoint_finally(h)
  \/ \E h \in Handles, how \in {"broken", "disconnected"} : TransportFail(h, how)
  \/ HubTick(MaxBeatTime)

SpecBeat == SpecHubInit /\ [][BeatNext]_vars

\* the endpoints with their heartbeat tasks, and the application shutting down
ShutdownNext ==
  \/ \E h \in Handles : connect_accept(h)
  \/ \E h \in Handles : connect_ack(h, QueryClientId(h))
  \/ \E h \in Handles : start_heartbeat_task(h)
  \/ \E h \in Handles : heartbeat_loop(h)
  \/ \E h \in Handles : endpoint[h] = "receiving" /\ endpoint_finally(h)
  \/ cleanup_start
  \/ cleanup_gathered
  \/ cleanup_close
  \/ HubTick(MaxBeatTime)

SpecShutdown == SpecHubInit /\ [][ShutdownNext]_vars

\* the event loop runs every task that is scheduled, and time passes
SpecBeatLive ==
  /\ SpecBeat
  /\ WF_vars(HubTick(MaxBeatTime))
  /\ \A h \in Handles : WF_vars(heartbeat_loop(h))

\* the endpoints from accept to their finally clause, within one heartbeat
\* interval
EndpointNext ==
  \/ \E h \in Handles : connect_accept(h)
  \/ \E h \in Handles : connect_accept_fails(h)
  \/ \E h \in Handles : connect_ack(h, QueryClientId(h))
  \/ \E h \in Handles : start_heartbeat_task(h)
  \/ \E h \in Handles : heartbeat_loop(h)
  \/ \E h \in Handles : endpoint[h] = "receiving" /\ send_message_call(h, ErrorReply)
  \/ \E h \in Handles : endpoint[h] = "receiving" /\ endpoint_finally(h)
  \/ \E h \in Handles, how \in {"broken", "disconnected"} : TransportFail(h, how)

\* the event loop runs every endpoint that can take a step
SpecEndpoint ==
  /\ SpecHubInit /\ [][EndpointNext]_vars
  /\ \A h \in Handles :
       /\ WF_vars(connect_ack(h, QueryClientId(h)))
       /\ WF_vars(start_heartbeat_task(h))
       /\ WF_vars(endpoint[h] = "receiving" /\ endpoint_finally(h))

\* from a change of a watched file to the clients: the watcher, the loop
\* and the hub
StatsNext ==
  \/ start_watching
  \/ \E ev \in Events : TimersLeft(MaxCalls) /\ on_modified(ev)
  \/ \E t \in TimerIds : TimerExpire(t)
  \/ \E t \in TimerIds : trigger_callback(t)
  \/ \E c \in Calls : send_stats_update(c)
  \/ \E c \in Calls, i \in 1..MaxHandles : safe_send(c, i)
  \/ \E c \in Calls : broadcast_finish(c)
  \/ \E h \in 1..MaxSendHandles : connect_accept(h)
  \/ \E h \in Handles : connect_ack(h, QueryClientId(h))
  \/ \E content \in {"missing", "valid", "corrupt"} : CacheWrite(content)
  \/ Tick(QuietTicks)

SpecStats == SpecHubInit /\ [][StatsNext]_vars

\* every operation of the hub within one heartbeat interval: the endpoints
\* of the first websockets, callers of send_message and of broadcast, the
\* heartbeat tasks and the shutdown
ManagerNext ==
  LET \* fewer than MaxCalls calls of send_message and broadcast were made by callers
      CallsLeft ==
        Cardinality(Made) + Cardinality({d \in DirectSends : d.message.type = "error"})
          < MaxCalls
  IN
  \/ \E h \in 1..MaxSendHandles : connect_accept(h)
  \/ \E h \in Handles : connect_ack(h, QueryClientId(h))
  \/ \E h \in Handles : CallsLeft /\ send_message_call(h, ErrorReply)
  \/ \E h \in Handles : start_heartbeat_task(h)
  \/ \E h \in Handles : heartbeat_loop(h)
  \/ \E h \in Handles : endpoint_finally(h)
  \/ \E h \in Handles, how \in {"broken", "disconnected"} : TransportFail(h, how)
  \/ \E c \in Calls :
       CallsLeft /\ broadcast_start(c, Message("test", "x", "absent"))
  \/ \E c \in Calls, i \in 1..MaxHandles : safe_send(c, i)
  \/ \E c \in Calls : broadcast_finish(c)
  \/ cleanup_start
  \/ cleanup_gathered
  \/ cleanup_close

SpecManager == SpecHubInit /\ [][ManagerNext]_vars

\* one call of a function of pricing.py
PricingNext ==
  \/ /\ returned = NoReturn
     /\ \E model_name \in ModelNames : call_get_model_pricing(model_name)
  \/ /\ returned = NoReturn
     /\ \E i, o, r, w \in TokenCounts, model_name \in ModelNames :
          call_calculate_cost(i, o, r, w, model_name)

SpecPricing == SpecHubInit /\ [][PricingNext]_vars

\* the date windows of at most MaxDays days, and the empty ones that end
\* the day before they start
Windows ==
  LET WindowDates == {"2024-02-28", "2024-02-29", "2024-03-01", "2025-02-28",
                      "2025-03-01", "2025-12-31", "2026-01-01"}
  IN  {w \in WindowDates \X WindowDates : Days(w[1], w[2]) \in -1..(MaxDays - 1)}

\* one call of a function of data_processor.py
DataNext ==
  \/ /\ returned = NoReturn
     /\ \E w \in Windows, daily_activities \in ActivityLists :
          call_fill_missing_dates(daily_activities, w[1], w[2])
  \/ /\ returned = NoReturn
     /\ \E daily_activities \in ActivityLists, period_days \in Periods :
          call_calculate_trends(daily_activities, period_days)
  \/ /\ returned = NoReturn
     /\ \E daily_activities \in ActivityLists, start_date, end_date \in RangeDates :
          call_calculate_date_range_stats(daily_activities, start_date, end_date)

SpecData == SpecHubInit /\ [][DataNext]_vars

\* ---------------------------------------------------------------- debounce claims
\* the bursts: a burst is named by its first timer
Bursts == {b \in Allocated : timer[b].burst = b}

BurstOf(b) == {t \in Allocated : timer[t].burst = b}

Done(g, p) == {t \in TimersOf(g, p) : timer[t].state = "done"}

\* the timer created by the event that follows the event of t on the same path
NextOf(t) ==
  LET later == {u \in TimersOf(timer[t].gen, timer[t].path) : u > t}
  IN IF later = {} THEN 0 ELSE CHOOSE u \in later : \A v \in later : u <= v

\* the event after the last event of burst b came exactly one quiet period
\* after it: neither inside the burst nor more than the quiet period later
Tied(b) ==
  LET lastT == MaxOf(BurstOf(b))
  IN NextOf(lastT) # 0 /\ StartOf(NextOf(lastT)) - StartOf(lastT) = QuietTicks

\* C1: of a burst of events for one path, each less than the quiet period
\* after the one before, no timer but the last one's ever invokes the
\* callback, the callback is invoked at most once, with that path, and exactly
\* once as soon as the quiet period after the last event is over.
C1_BurstFiresOnce ==
  /\ \A b \in Bursts :
       LET lastT == MaxOf(BurstOf(b))
       IN /\ burstCalls[b] <= 1
          /\ \A t \in BurstOf(b) \ {lastT} : timer[t].state # "done"
          /\ burstCalls[b] = 1 => timer[lastT].state = "done"
          /\ (now > timer[lastT].deadline /\ ~Tied(b)) => burstCalls[b] = 1
  /\ \A g \in Gens, p \in Paths : calls[g][p] = Cardinality(Done(g, p))

\* the event of timer t is followed by more than the quiet period without
\* an event for its path, as far as the clock has come
QuietAfter(t) ==
  IF NextOf(t) # 0
  THEN StartOf(NextOf(t)) - StartOf(t) > QuietTicks
  ELSE now > timer[t].deadline

\* C5: an event that is followed by more than the quiet period without an
\* event for its path has had the callback invoked for it, once, before the
\* next event; so two events of a path that are more than the quiet period
\* apart make exactly two invocations, one after each.
C5_SeparatedEventsEachFire ==
  \A g \in Gens, p \in Paths :
    LET T == TimersOf(g, p)
    IN /\ \A t \in T : QuietAfter(t) => timer[t].state = "done"
       /\ calls[g][p] = Cardinality(Done(g, p))
       /\ (Cardinality(T) = 2 /\ \A t \in T : QuietAfter(t)) => calls[g][p] = 2

\* two events more than the quiet period apart, and two callbacks
C5_Witness ==
  \E g \in Gens, p \in Paths :
    LET T == TimersOf(g, p)
    IN /\ Cardinality(T) = 2
       /\ \A t \in T : QuietAfter(t)
       /\ calls[g][p] = 2

\* C6: the callback of a path is never invoked while less than the quiet
\* period has elapsed since the latest on_modified event for that path.
C6_NoCallbackInsideQuietPeriod ==
  \A t \in Allocated : timer[t].state = "done" => timer[t].quiet >= QuietTicks

\* ---------------------------------------------------------------- watcher claims
\* C2: a timer that was pending when stop_watching ran never invokes the
\* callback afterwards.
C2_NoCallbackAfterStop ==
  \A t \in Allocated : timer[t].atStop => timer[t].state # "done"

\* C7: start_watching on a running watcher raises RuntimeError and changes
\* nothing: the watcher stays running with the same observer, handler, loop,
\* timers and submitted callbacks.
C7_DoubleStartRaises ==
  [][(is_running /\ last'.op = "start_watching") =>
       /\ last'.raised = "RuntimeError"
       /\ is_running'
       /\ observer' = observer /\ observer' # 0
       /\ UNCHANGED <<loop, started, timers, timer, calls, burstCalls, loopQueue>>]_vars

\* the second start has just raised while a debounce timer of the first watch
\* is pending
C7_Witness ==
  /\ last = [op |-> "start_watching", raised |-> "RuntimeError"]
  /\ is_running
  /\ \E t \in Allocated : timer[t].state = "waiting" /\ timer[t].gen = observer

\* C8: start_watching when the root directory does not exist raises
\* FileNotFoundError and leaves the watcher not running, with no observer and
\* no handler created.
C8_MissingDirRaises ==
  [][(~is_running /\ ~dirExists /\ last'.op = "start_watching") =>
       /\ last'.raised = "FileNotFoundError"
       /\ ~is_running'
       /\ observer' = 0
       /\ UNCHANGED <<loop, started, timers, timer, loopQueue>>]_vars

C8_Witness ==
  /\ last = [op |-> "start_watching", raised |-> "FileNotFoundError"]
  /\ ~is_running /\ observer = 0 /\ ~dirExists

\* the callback of timer t raises in this step
Raises(t) ==
  /\ timer[t].notify = "queued"
  /\ timer'[t].notify \notin {"queued", "ran"}

\* C9: an exception raised by the callback is caught: the step leaves the
\* watcher, its observer, its timers and the callbacks already submitted as
\* they were, so a later change is notified like any other, and a change that
\* fires while the loop runs is always submitted.
C9_CallbackFailureContained ==
  [][/\ \A t \in TimerIds : Raises(t) =>
          /\ timer'[t] = [timer[t] EXCEPT !.notify = "raised"]
          /\ \A u \in TimerIds \ {t} : timer'[u] = timer[u]
          /\ loopQueue' = Tail(loopQueue)
          /\ UNCHANGED <<is_running, observer, loop, loop_running, started, timers>>
     /\ \A t \in TimerIds :
          (timer'[t].state = "done" /\ timer'[t].loopOK /\ callback # "None")
            => timer'[t].notify \in {"queued", "ran", "raised"}]_vars

\* a callback raised, and the callback of a later change has run
C9_Witness ==
  \E t, u \in Allocated : /\ t < u
                          /\ timer[t].notify = "raised"
                          /\ timer[u].notify = "ran"

\* C10: a change that fires while no loop is registered or the loop is not
\* running is dropped: it is never submitted to the loop and its callback is
\* never run, also when the loop runs later.
C10_DroppedWithoutLoop ==
  \A t \in Allocated :
    (timer[t].state = "done" /\ ~timer[t].loopOK) =>
       /\ timer[t].notify \in {"dropped", "skipped"}
       /\ \A i \in 1..Len(loopQueue) : loopQueue[i] # t

\* a change was dropped and the loop is running again after it
C10_Witness ==
  \E t \in Allocated : /\ timer[t].state = "done"
                       /\ ~timer[t].loopOK
                       /\ timer[t].notify = "dropped"
                       /\ loop_running
                       /\ now > timer[t].deadline

\* ---------------------------------------------------------------- hub claims
Range(seq) == {seq[i] : i \in 1..Len(seq)}

\* how often a message of broadcast call c was delivered in seq
Count(seq, c) == Cardinality({i \in 1..Len(seq) : seq[i].call = c})

\* broadcast call c returns from its gather in this step
Finishes(c) == bcast[c].state = "gather" /\ bcast'[c].state = "returned"

\* C3: a broadcast changes the registry only when it returns: with no failed
\* delivery it leaves the active list and the metadata map as they are, and
\* with exactly one failed delivery it removes exactly that subscriber from
\* both and leaves the others registered.
C3_BroadcastPrunesExactlyFailed ==
  [][\A c \in Calls :
       bcast'[c] # bcast[c] =>
         LET failed == Range(bcast[c].failed_connections)
         IN IF Finishes(c)
            THEN /\ failed = {} => UNCHANGED <<active_connections, connection_metadata>>
                 /\ Cardinality(failed) = 1 =>
                      \A f \in failed :
                        /\ active_connections' =
                             SelectSeq(active_connections, LAMBDA h : h # f)
                        /\ connection_metadata' =
                             [connection_metadata EXCEPT ![f] = "absent"]
            ELSE UNCHANGED <<active_connections, connection_metadata>>]_vars

\* a broadcast to two subscribers has returned, one delivery failed, and the
\* other subscriber alone is registered
C3_Witness ==
  \E c \in Calls :
    /\ bcast[c].state = "returned"
    /\ Len(bcast[c].tasks) = 2
    /\ Len(bcast[c].failed_connections) = 1
    /\ LET f == bcast[c].failed_connections[1]
       IN /\ ws[f] = "broken"
          /\ f \notin Range(active_connections)
          /\ connection_metadata[f] = "absent"
          /\ \E h \in Handles \ {f} : /\ active_connections = <<h>>
                                      /\ connection_metadata[h] # "absent"

\* C4: no broadcast raises, and when it has returned every one of its tasks
\* has run: a subscriber of the list it started with whose transport is
\* healthy has received the payload exactly once, and nobody more than once.
C4_FailureDoesNotAbortFanOut ==
  \A c \in Calls :
    /\ bcast[c].raised = "none"
    /\ \A h \in Handles : Count(received[h], c) <= 1
    /\ bcast[c].state = "returned" =>
         \A i \in 1..Len(bcast[c].tasks) :
           LET h == bcast[c].tasks[i].connection
           IN /\ bcast[c].tasks[i].st # "pending"
              /\ ws[h] = "connected" => Count(received[h], c) = 1

\* a returned broadcast whose first delivery failed and whose second arrived
C4_Witness ==
  \E c \in Calls :
    /\ bcast[c].state = "returned"
    /\ Len(bcast[c].tasks) = 2
    /\ bcast[c].tasks[1].st = "failed"
    /\ bcast[c].tasks[2].st = "sent"
    /\ Count(received[bcast[c].tasks[2].connection], c) = 1


\* ---------------------------------------------------------------- connect, disconnect, send_message
\* connect returns for websocket h in this step
ConnectReturns(h) == endpoint[h] = "accepted" /\ endpoint'[h] = "open"

\* the acknowledgment connect sends to websocket h
AckOf(h) == Delivery(0, Connected(ClientId(QueryClientId(h))))

\* h is in the active list and has a metadata entry
Registered(h) == h \in Range(active_connections) /\ connection_metadata[h] # "absent"

\* h is in neither the active list nor the metadata map
Absent(h) == h \notin Range(active_connections) /\ connection_metadata[h] = "absent"

C12_RemoveIsIdempotent ==
  \A h \in Handles :
    LET once == disconnect(Registry, h)
        twice == disconnect(once, h)
    IN /\ once.raised = "none"
       /\ h \notin Range(once.active)
       /\ once.metadata[h] = "absent"
       /\ once.active = SelectSeq(active_connections, LAMBDA g : g # h)
       /\ \A g \in Handles \ {h} : once.metadata[g] = connection_metadata[g]
       /\ Absent(h) => once = Registry
       /\ twice = once
       /\ escaped = "none"

\* a websocket was removed by a broadcast and again by its endpoint, and the
\* other websocket is still registered
C12_Witness ==
  \E h \in Handles, c \in Calls :
    /\ bcast[c].state = "returned"
    /\ h \in Range(bcast[c].failed_connections)
    /\ endpoint[h] = "closed"
    /\ Absent(h)
    /\ \E g \in Handles \ {h} : Registered(g)

\* C13: send_message never raises; after a failed delivery the websocket is
\* in neither the active list nor the metadata map if its client_state is
\* DISCONNECTED and stays registered as it was otherwise; the other
\* websockets are not touched, and a delivery changes no registration.
C13_SendFailureRemovesOnlyDisconnected ==
  [][\A h \in Handles :
       ((\E message \in CallerMessages : send_message_call(h, message))
          \/ connect_ack(h, QueryClientId(h)))
       => /\ escaped' = "none"
          /\ \A g \in Handles \ {h} :
               /\ connection_metadata'[g] = connection_metadata[g]
               /\ received'[g] = received[g]
               /\ (g \in Range(active_connections')) = (g \in Range(active_connections))
          /\ ws[h] = "disconnected" => Absent(h)' /\ received'[h] = received[h]
          /\ ws[h] = "broken" =>
               /\ received'[h] = received[h]
               /\ endpoint[h] = "open" =>
                    UNCHANGED <<active_connections, connection_metadata>>
               /\ endpoint[h] = "accepted" => Registered(h)'
          /\ ws[h] = "connected" =>
               /\ Len(received'[h]) = Len(received[h]) + 1
               /\ endpoint[h] = "open" =>
                    UNCHANGED <<active_connections, connection_metadata>>]_vars

\* a websocket that was acknowledged and registered lost its client, and a
\* send_message to it has removed it: no broadcast and no endpoint did
C13_Witness ==
  \E h \in Handles :
    /\ endpoint[h] = "open"
    /\ ws[h] = "disconnected"
    /\ received[h] = <<AckOf(h)>>
    /\ Absent(h)
    /\ \A c \in Calls : bcast[c].state = "idle"

\* the message a caller passed, as a client must receive it: a timestamp of
\* the caller is kept, a missing one is filled in
AsDelivered(message, got) ==
  /\ got.type = message.type
  /\ got.data = message.data
  /\ got.timestamp # "absent"
  /\ message.timestamp # "absent" => got.timestamp = message.timestamp

\* C19: every payload a client receives from send_message or broadcast has a
\* timestamp: the one the caller set, or one the hub added when the caller
\* set none.
C19_EveryPayloadIsStamped ==
  \A h \in Handles : \A i \in 1..Len(received[h]) :
    \E message \in CallerMessages \cup {AckOf(h).message, Heartbeat} :
      AsDelivered(message, received[h][i].message)

\* a client has received a broadcast whose caller set no timestamp and a
\* send_message whose caller set one
C19_Witness ==
  \E h \in Handles : \E i, j \in 1..Len(received[h]) :
    /\ received[h][i].call # 0
    /\ received[h][i].message = Message("test", "x", "now")
    /\ received[h][j].call = 0
    /\ received[h][j].message = Message("pong", "x", "caller")

\* C16: per websocket the payloads arrive in the order of the send_message
\* and broadcast calls: a payload is never delivered to a websocket for which
\* a task of an earlier broadcast call has not yet run.
C16_DeliveredInCallOrder ==
  [][\A h \in Handles :
       received'[h] # received[h] =>
         LET got == received'[h][Len(received'[h])]
         IN \A c \in Calls : \A i \in 1..Len(bcast[c].tasks) :
              (/\ bcast[c].tasks[i].connection = h
               /\ bcast[c].tasks[i].st = "pending"
               /\ bcast[c].state = "gather")
              => got.call = c]_vars

\* ---------------------------------------------------------------- cleanup, heartbeat
\* cleanup closes a connection in this step
Closes(h) == ws[h] # "closed" /\ ws'[h] = "closed"

\* the heartbeat task of h sends a heartbeat in this step
Beats(h) == heartbeat_loop(h) /\ h \in Range(active_connections)

\* C14: cleanup closes a connection only when every heartbeat task has been
\* cancelled and has finished, no heartbeat is sent to a connection that
\* cleanup has closed, and when cleanup returns the active list, the metadata
\* map and the set of heartbeat tasks are empty.
C14_ShutdownStopsHeartbeatsFirst ==
  [][/\ \A h \in Handles : Closes(h) => \A g \in Handles : ~Alive(g)'
     /\ \A h \in Handles : Beats(h) => ws[h] # "closed"
     /\ (shutdown.state # "returned" /\ shutdown'.state = "returned") =>
          /\ active_connections' = <<>>
          /\ \A h \in Handles : connection_metadata'[h] = "absent"
          /\ heartbeat_tasks' = {}]_vars

\* the heartbeat task of h is alive although h has left the active list, and
\* the clock can reach the end of its sleep
Orphaned(h) ==
  /\ Alive(h)
  /\ h \notin Range(active_connections)
  /\ heartbeat[h].wake <= MaxBeatTime

\* C15: while its websocket is in the active list the heartbeat task sends a
\* heartbeat when it starts and again exactly one interval after each one;
\* a round that finds the websocket removed sends nothing and ends the task,
\* no heartbeat is delivered to a websocket that is not in the active list,
\* and a task whose websocket was removed ends by itself, uncancelled.
C15_HeartbeatStopsAfterRemoval ==
  /\ [][\A h \in Handles :
          /\ Beats(h) =>
               /\ heartbeat[h].state = "sleeping" => now = heartbeat[h].wake
               /\ heartbeat'[h] = [state |-> "sleeping", wake |-> now + BeatTicks]
          /\ (heartbeat_loop(h) /\ h \notin Range(active_connections)) =>
               /\ heartbeat'[h].state = "ended"
               /\ h \notin heartbeat_tasks'
               /\ received'[h] = received[h]
          /\ (h \notin Range(active_connections) /\ endpoint[h] # "accepted") =>
               received'[h] = received[h]
          /\ heartbeat'[h].state # "cancelled"]_vars
  /\ [](\A h \in Handles : heartbeat[h].state = "sleeping" => now <= heartbeat[h].wake)
  /\ \A h \in Handles : Orphaned(h) ~> (heartbeat[h].state = "ended")

\* the first client got a heartbeat at once and another one interval later,
\* and the task of the second, removed after its first heartbeat, has ended
C15_Witness ==
  /\ Len(received[1]) = 3
  /\ received[1][2] = Delivery(0, Heartbeat)
  /\ received[1][3] = Delivery(0, Heartbeat)
  /\ heartbeat[1] = [state |-> "sleeping", wake |-> 2 * BeatTicks]
  /\ Absent(2)
  /\ received[2] = <<AckOf(2), Delivery(0, Heartbeat)>>
  /\ heartbeat[2].state = "ended"

\* ---------------------------------------------------------------- websocket_endpoint
\* C17: an endpoint that has ended has left its websocket in neither the
\* active list nor the metadata map, so with every endpoint ended the active
\* list is empty; and the endpoint of a client that is gone, or whose accept
\* failed, does end.
C17_EndpointRemovesItsHandle ==
  /\ [](\A h \in Handles : endpoint[h] = "closed" => Absent(h))
  /\ []((\A h \in Handles : endpoint[h] \in {"new", "closed"}) => active_connections = <<>>)
  /\ \A h \in Handles : (ws[h] = "disconnected") ~> (endpoint[h] = "closed" /\ Absent(h))

\* a client that was served and then went away, and a client whose accept
\* failed: both endpoints have ended and the active list is empty
C17_Witness ==
  /\ endpoint[1] = "closed" /\ endpoint[2] = "closed"
  /\ AckOf(1) \in Range(received[1])
  /\ Delivery(0, ErrorReply) \in Range(received[1])
  /\ received[2] = <<>>
  /\ active_connections = <<>>
  /\ \A h \in Handles : connection_metadata[h] = "absent"

\* ---------------------------------------------------------------- send_stats_update

\* the changes the loop has dispatched to the callback
Dispatched == {t \in Allocated : timer[t].notify \in {"ran", "raised"}}

\* C18: every change the loop dispatches hands exactly one stats_update
\* message to broadcast, with the changed path and with the parsed document
\* when the path is the cache file and the file is there and parses, and with
\* no stats otherwise; a file that cannot be read or parsed raises nothing
\* and the message is broadcast all the same.
C18_OneStatsUpdatePerChange ==
  [][loopQueue' # loopQueue /\ Len(loopQueue') < Len(loopQueue) =>
       LET t == Head(loopQueue)
           new == {c \in Calls : bcast[c].state = "idle" /\ bcast'[c].state # "idle"}
       IN /\ timer'[t].notify = "ran"
          /\ Cardinality(new) = 1
          /\ Cardinality(Made') = Cardinality(Dispatched')
          /\ \A c \in new :
               /\ bcast'[c].message.type = "stats_update"
               /\ bcast'[c].message.data.file_path = timer[t].path
               /\ bcast'[c].message.data.stats =
                    (IF timer[t].path = "statsCache.json" /\ cache = "valid"
                     THEN "document" ELSE "None")
               /\ bcast'[c].message.data.stats \in {"document", "None"}]_vars

\* a change of the cache file while it could not be parsed has reached a
\* client as a stats_update without stats
C18_Witness ==
  \E h \in Handles, c \in Calls :
    /\ cache = "corrupt"
    /\ bcast[c].state = "returned"
    /\ Delivery(c, StatsUpdate("statsCache.json", "None")) \in Range(received[h])
    /\ \E t \in Allocated : timer[t].notify = "ran" /\ timer[t].path = "statsCache.json"

\* ---------------------------------------------------------------- the filters of on_modified
\* C20: on_modified for a directory, or for a file whose suffix is not among
\* the watched patterns, creates no timer and leaves the timer map, every
\* pending timer and the callbacks as they are; no timer ever belongs to such
\* a file and its callback is never invoked.
C20_IgnoredEventsChangeNothing ==
  /\ [][/\ \A ev \in Events : (on_modified(ev) /\ ~Watched(ev)) => last'.op = "ignored"
        /\ last'.op = "ignored" =>
             UNCHANGED <<timers, timer, calls, burstCalls, loopQueue>>]_vars
  /\ [](\A t \in Allocated : Lower(Suffix(timer[t].path)) \in watched_patterns)
  /\ [](\A g \in Gens, p \in Paths :
          Lower(Suffix(p)) \notin watched_patterns => calls[g][p] = 0 /\ timers[g][p] = 0)

\* an event has just been ignored while a timer of a watched file is pending
C20_Witness ==
  /\ last.op = "ignored"
  /\ \E t \in Allocated : timer[t].state = "waiting" /\ timers[timer[t].gen][timer[t].path] = t
  /\ \A t \in Allocated : timer[t].path # "notes.txt"
\* ---------------------------------------------------------------- pricing claims
\* the entry of PRICING_CONFIG stored under key
Entry(key) ==
  CHOOSE p \in {PRICING_CONFIG[k] : k \in 1..Len(PRICING_CONFIG)} : p.model_name = key

\* the model families of the pricing table, with their prices
Families == {"opus", "sonnet", "haiku"}

FamilyPricing(family) ==
  CASE family = "opus"   -> Entry("claude-opus-4.5")
    [] family = "sonnet" -> Entry("claude-sonnet-4.5")
    [] family = "haiku"  -> Entry("claude-haiku-4.5")

\* the name names a model family of the pricing table
Identifies(model_name, family) == Contains(lower(model_name), family)

\* C21: get_model_pricing called with a name that is itself a key of the
\* pricing table returns the entry stored under that key, whose model_name
\* is the requested name.
C21_ExactMatchFirst ==
  (returned.fn = "get_model_pricing" /\ returned.args[1] \in Keys)
    => returned.value = Entry(returned.args[1])

\* C22: calculate_cost called with a name that names no model family of the
\* pricing table returns 0.0, whatever the four token counts are.
C22_UnknownModelCostsNothing ==
  (returned.fn = "calculate_cost"
     /\ \A family \in Families : ~Identifies(returned.args[5], family))
    => returned.value = USD(0, 0)

\* the sum over the four token types of count / 1,000,000 times the unit
\* price of pricing
SumOfProducts(args, pricing) ==
  Plus(Plus(Plus(Times(args[1], pricing.input_price),
                 Times(args[2], pricing.output_price)),
            Times(args[3], pricing.cache_read_price)),
       Times(args[4], pricing.cache_write_price))

WithDate(daily_activities, date) ==
  {i \in 1..Len(daily_activities) : daily_activities[i].date = date}

\* C24: for a window [a, b] with a <= b, fill_missing_dates returns exactly
\* (b - a).days + 1 entries, the i-th of them for the i-th calendar date of
\* the window, in strictly ascending order of their date strings; the entry
\* of a date present in the input is the input entry of that date, the last
\* one when the date repeats, and the entry of an absent date has
\* session_count 0, total_tokens 0 and no models.
C24_OneEntryPerDateOfWindow ==
  (returned.fn = "fill_missing_dates" /\ Days(returned.args[2], returned.args[3]) >= 0) =>
    LET xs == returned.args[1]
        out == returned.value
        first == toordinal(strptime(returned.args[2]))
    IN  /\ Len(out) = Days(returned.args[2], returned.args[3]) + 1
        /\ \A i \in 1..Len(out) :
             /\ Len(out[i].date) = 10
             /\ toordinal(strptime(out[i].date)) = first + i - 1
             /\ \A j \in 1..Len(out) : i < j => StrLess(out[i].date, out[j].date)
             /\ IF WithDate(xs, out[i].date) # {}
                THEN \E k \in WithDate(xs, out[i].date) :
                       /\ out[i] = xs[k]
                       /\ \A l \in WithDate(xs, out[i].date) : l <= k
                ELSE out[i] = DailyActivity(out[i].date, 0, 0, <<>>)

C24_Witness ==
  /\ returned.fn = "fill_missing_dates"
  /\ returned.args[2] = "2024-02-28" /\ returned.args[3] = "2024-03-01"
  /\ Len(returned.args[1]) = 2
  /\ returned.args[1][1].date = "2024-03-01" /\ returned.args[1][2].date = "2024-02-28"
  /\ Len(returned.value) = 3
  /\ returned.value[1] = returned.args[1][2]
  /\ returned.value[1].session_count = 5
  /\ returned.value[2] = DailyActivity("2024-02-29", 0, 0, <<>>)
  /\ returned.value[3] = returned.args[1][1]

\* the sum of total_tokens over the entries of ordered at the indices of at
RECURSIVE TokensAt(_, _)
TokensAt(ordered, at) ==
  IF at = {} THEN 0
  ELSE LET j == CHOOSE k \in at : TRUE
       IN  ordered[j].total_tokens + TokensAt(ordered, at \ {j})

\* C25: with the activities in ascending order of date, the trend returned
\* for the date of the activity at index i has its total_tokens and
\* session_count, prev_period_avg the mean (to two decimals) of total_tokens
\* over the indices max(first, i - period_days) .. i - 1, 0 when there are
\* none, and growth_rate (current - mean) / mean * 100 (to two decimals), 0
\* when the mean is 0; the earliest entry has prev_period_avg 0 and
\* growth_rate 0.
C25_TrendOfEveryEntry ==
  returned.fn = "calculate_trends" =>
    LET ordered == sorted(returned.args[1])
        period_days == returned.args[2]
    IN  \A i \in 1..Len(ordered) :
          LET window == {j \in 1..(i - 1) : j >= i - period_days}
              total == TokensAt(ordered, window)
              count == Cardinality(window)
              trend == returned.value[ordered[i].date]
          IN  /\ ordered[i].date \in DOMAIN returned.value
              /\ trend.total_tokens = ordered[i].total_tokens
              /\ trend.session_count = ordered[i].session_count
              /\ trend.prev_period_avg = (IF count = 0 THEN 0 ELSE Round2(total, count))
              /\ trend.growth_rate =
                   (IF count = 0 \/ total = 0 THEN 0
                    ELSE Round2(100 * (ordered[i].total_tokens * count - total), total))
              /\ i = 1 => trend.prev_period_avg = 0 /\ trend.growth_rate = 0

\* the sum of session_count over the entries of a list at the indices of at
RECURSIVE SessionsAt(_, _)
SessionsAt(activities, at) ==
  IF at = {} THEN 0
  ELSE LET j == CHOOSE k \in at : TRUE
       IN  activities[j].session_count + SessionsAt(activities, at \ {j})

\* the indices of the entries whose calendar date lies in [start, end]; an
\* empty bound is no bound
InRange(activities, start, end) ==
  {i \in 1..Len(activities) :
     LET day == toordinal(strptime(activities[i].date))
     IN  /\ start = "" \/ toordinal(strptime(start)) <= day
         /\ end = "" \/ day <= toordinal(strptime(end))}

\* C26: calculate_date_range_stats summarizes exactly the activities whose
\* date lies in [start, end]: total_days is their number, total_sessions
\* and total_tokens their sums, max_daily_tokens and min_daily_tokens their
\* largest and smallest total_tokens; when there is none, the summary has
\* its seven fields and each is 0.
C26_SummaryOfTheRange ==
  returned.fn = "calculate_date_range_stats" =>
    LET xs == returned.args[1]
        at == InRange(xs, returned.args[2], returned.args[3])
        summary == returned.value
    IN  IF at = {} THEN summary = EmptySummary
        ELSE /\ summary.total_days = Cardinality(at)
             /\ summary.total_sessions = SessionsAt(xs, at)
             /\ summary.total_tokens = TokensAt(xs, at)
             /\ \E i \in at : summary.max_daily_tokens = xs[i].total_tokens
             /\ \E i \in at : summary.min_daily_tokens = xs[i].total_tokens
             /\ \A i \in at : /\ xs[i].total_tokens <= summary.max_daily_tokens
                              /\ xs[i].total_tokens >= summary.min_daily_tokens

C26_Witness ==
  /\ returned.fn = "calculate_date_range_stats"
  /\ returned.args[2] = "2024-02-29" /\ returned.args[3] = "2024-03-01"
  /\ Len(returned.args[1]) = 3
  /\ returned.args[1][1].date = "2024-03-01"
  /\ returned.args[1][2].date = "2024-02-28" /\ returned.args[1][2].total_tokens = 15000
  /\ returned.args[1][3].date = "2024-02-29"
  /\ returned.value.total_days = 2
  /\ returned.value.total_sessions = 5
  /\ returned.value.total_tokens = 10000
  /\ returned.value.max_daily_tokens = 10000
  /\ returned.value.min_daily_tokens = 0

\* ---------------------------------------------------------------- concurrency claims
\* C27: under every interleaving of on_modified and the timer threads, a
\* handler has at most one live timer per path and it is the one in
\* _timers; a timer that a newer event replaced never invokes the callback,
\* and a firing timer removes no other timer's entry of _timers. A timer is
\* live while its thread is still in its wait, and fires in the step in which
\* its thread runs _trigger_callback.
C27_OneLiveTimerPerPath ==
  /\ [](\A g \in Gens, p \in Paths :
          LET Live == {t \in TimersOf(g, p) : timer[t].state = "waiting"}
          IN  /\ Cardinality(Live) <= 1
              /\ \A t \in Live : timers[g][p] = t)
  /\ [][\A t \in TimerIds :
          (timer[t].state = "expired" /\ timer'[t].state = "done") =>
            /\ t = MaxOf(TimersOf(timer[t].gen, timer[t].path))
            /\ timers[timer[t].gen][timer[t].path] \in {0, t}]_vars

\* the user callback has run for the change that timer t reported
Ran(t) == timer[t].notify \in {"ran", "raised"}

\* C28: the user callback runs only as the coroutine the event loop takes
\* from its queue, after the timer's thread has submitted it and finished
\* _trigger_callback; no step of the observer thread or of a timer's thread
\* runs it or changes the hub's active connections, metadata or broadcasts.
C28_CallbackRunsOnLoopOnly ==
  [][/\ \A t \in TimerIds :
          (Ran(t)' /\ ~Ran(t)) =>
            /\ loop = "loop" /\ loop_running
            /\ timer[t].state = "done"
            /\ loopQueue # <<>> /\ Head(loopQueue) = t
            /\ loopQueue' = Tail(loopQueue)
     /\ (\E t \in TimerIds : timer'[t].state # timer[t].state) =>
          /\ UNCHANGED <<active_connections, connection_metadata, bcast, received>>
          /\ \A t \in TimerIds : Ran(t)' = Ran(t)]_vars

C28_Witness ==
  \E t \in Allocated, h \in Handles, c \in Calls :
    /\ timer[t].state = "done" /\ timer[t].notify = "ran"
    /\ cache = "valid"
    /\ connection_metadata[h] # "absent"
    /\ Delivery(c, StatsUpdate("statsCache.json", "document")) \in Range(received[h])

\* ---------------------------------------------------------------- the join of broadcast
\* the connections of the tasks of broadcast call c that failed
FailedIn(c) ==
  {bcast[c].tasks[i].connection : i \in {j \in 1..Len(bcast[c].tasks) :
                                           bcast[c].tasks[j].st = "failed"}}

\* C29: a broadcast returns only when every one of its tasks has run, and
\* until then it removes nobody: a step of a task leaves the active list
\* and the metadata map as they are.  When it returns, the connections
\* whose delivery failed are the ones it collected, and none of them is in
\* the active list or the metadata map, whatever connect and disconnect
\* did for other websockets while the tasks ran.
C29_PrunesAfterTheJoin ==
  [][\A c \in Calls :
       /\ (bcast'[c] # bcast[c] /\ bcast[c].state = "gather" /\ ~Finishes(c)) =>
            /\ UNCHANGED <<active_connections, connection_metadata>>
            /\ bcast'[c].state = "gather"
       /\ Finishes(c) =>
            /\ \A i \in 1..Len(bcast[c].tasks) : bcast[c].tasks[i].st \in {"sent", "failed"}
            /\ Range(bcast[c].failed_connections) = FailedIn(c)
            /\ \A f \in FailedIn(c) :
                 /\ f \notin Range(active_connections')
                 /\ connection_metadata'[f] = "absent"]_vars

\* the tasks of a broadcast to two subscribers have all run and the
\* broadcast has not returned yet: one delivery failed, and that websocket
\* was removed by its own endpoint while the tasks ran
C29_Witness ==
  \E c \in Calls :
    /\ bcast[c].state = "gather"
    /\ Len(bcast[c].tasks) = 2
    /\ \A i \in 1..2 : bcast[c].tasks[i].st # "pending"
    /\ \E f \in FailedIn(c) :
         /\ f \notin Range(active_connections)
         /\ connection_metadata[f] = "absent"
         /\ endpoint[f] = "closed"
    /\ \E h \in Handles : Count(received[h], c) = 1

\* ---------------------------------------------------------------- the two collections
\* C30: whatever connect, send_message, broadcast, the heartbeat tasks,
\* disconnect and cleanup have done, a websocket is in active_connections
\* exactly when it has an entry in connection_metadata, and it occurs in
\* active_connections at most once.
C30_ActiveIffMetadata ==
  /\ \A h \in Handles :
       (h \in Range(active_connections)) <=> (connection_metadata[h] # "absent")
  /\ Cardinality(Range(active_connections)) = Len(active_connections)

\* cleanup has returned and emptied both collections after a websocket was
\* accepted, reached by a heartbeat and closed by the cleanup
C30_Witness ==
  /\ shutdown.state = "returned"
  /\ active_connections = <<>>
  /\ \E h \in Handles :
       /\ Delivery(0, Heartbeat) \in Range(received[h])
       /\ ws[h] = "closed"
       /\ connection_metadata[h] = "absent"
====
